---- MODULE Spec2Model ----
(***************************************************************************)
(* Model of the PHI detector (phiDetector.ts), the PHI redactor            *)
(* (phiRedactor.ts) and the audit logger (auditLogger.ts).                 *)
(*                                                                         *)
(* A text is a sequence of one-character strings.  Positions are the       *)
(* 0-based JavaScript indices: position p is the gap before text[p+1].     *)
(***************************************************************************)
EXTENDS Integers, Sequences, FiniteSets, TLC

(***************************************************************************)
(* Character classes of the regular expressions                            *)
(***************************************************************************)
UpperSeq ==
  <<"A","B","C","D","E","F","G","H","I","J","K","L","M",
    "N","O","P","Q","R","S","T","U","V","W","X","Y","Z">>

LowerSeq ==
  <<"a","b","c","d","e","f","g","h","i","j","k","l","m",
    "n","o","p","q","r","s","t","u","v","w","x","y","z">>

Range(s) == {s[i] : i \in 1..Len(s)}

Upper == Range(UpperSeq)

Lower == Range(LowerSeq)

Digit == {"0","1","2","3","4","5","6","7","8","9"}

\* \s restricted to the white space of the modelled alphabet
Space == {" ", "\t", "\n"}

\* \w
WordChar == Upper \cup Lower \cup Digit \cup {"_"}

\* the other case of a letter, the character itself otherwise (flag i)
SwapCase(c) ==
  IF c \in Upper THEN LowerSeq[CHOOSE i \in 1..26 : UpperSeq[i] = c]
  ELSE IF c \in Lower THEN UpperSeq[CHOOSE i \in 1..26 : LowerSeq[i] = c]
  ELSE c

(***************************************************************************)
(* Regular expressions as trees, and a backtracking matcher                *)
(***************************************************************************)
Cls(S) == [t |-> "cls", s |-> S]

Str(s) == [t |-> "str", s |-> s]

Cat(a) == [t |-> "cat", a |-> a]

Alt(a) == [t |-> "alt", a |-> a]

\* greedy r{lo,hi}; hi = Unbounded stands for no upper limit
Unbounded == 0 - 1

Rep(r, lo, hi) == [t |-> "rep", r |-> r, lo |-> lo, hi |-> hi]

Opt(r) == Rep(r, 0, 1)

\* \b
WB == [t |-> "wb"]

Ch(c) == Cls({c})

InClass(c, S, ic) == c \in S \/ (ic /\ SwapCase(c) \in S)

IsWordAt(text, p) == p >= 0 /\ p < Len(text) /\ text[p + 1] \in WordChar

RECURSIVE AddUniq(_, _)
\* s followed by the elements of u that are not yet in it (first occurrences)
AddUniq(s, u) ==
  IF u = <<>> THEN s
  ELSE IF \E i \in 1..Len(s) : s[i] = Head(u) THEN AddUniq(s, Tail(u))
  ELSE AddUniq(Append(s, Head(u)), Tail(u))

\* [S]{lo,hi}, greedy, for a character class S: the longest run first, then
\* one character less at a time down to lo characters
EndsRun(S, lo, hi, text, ic, pos) ==
  LET n == Len(text)
      last == IF hi # Unbounded /\ pos + hi < n THEN pos + hi ELSE n
      stop == {q \in pos..last : q = last \/ ~InClass(text[q + 1], S, ic)}
      top == (CHOOSE q \in stop : \A q2 \in stop : q <= q2) - pos
  IN IF top < lo THEN <<>>
     ELSE [i \in 1..(top - lo + 1) |-> pos + top - (i - 1)]

RECURSIVE Ends(_, _, _, _), EndsCat(_, _, _, _, _), EndsAlt(_, _, _, _, _),
          EndsRep(_, _, _, _, _, _), EndsRepFrom(_, _, _, _, _, _, _)
\* The end positions of the matches of re that start at pos, in the order
\* in which a backtracking matcher tries them (the first one is the result
\* when nothing follows).  A position occurs once: what follows a
\* sub-match depends on its end position only.
Ends(re, text, ic, pos) ==
  CASE re.t = "cls" ->
         IF pos < Len(text) /\ InClass(text[pos + 1], re.s, ic)
         THEN <<pos + 1>> ELSE <<>>
    [] re.t = "str" ->
         IF /\ pos + Len(re.s) <= Len(text)
            /\ \A k \in 1..Len(re.s) : InClass(text[pos + k], {re.s[k]}, ic)
         THEN <<pos + Len(re.s)>> ELSE <<>>
    [] re.t = "wb" ->
         IF IsWordAt(text, pos - 1) # IsWordAt(text, pos)
         THEN <<pos>> ELSE <<>>
    [] re.t = "cat" -> EndsCat(re.a, 1, text, ic, <<pos>>)
    [] re.t = "alt" -> EndsAlt(re.a, 1, text, ic, pos)
    [] re.t = "rep" ->
         IF re.r.t = "cls" THEN EndsRun(re.r.s, re.lo, re.hi, text, ic, pos)
         ELSE EndsRep(re.r, re.lo, re.hi, text, ic, pos)

\* a[k], a[k+1], ... in sequence, from each of the positions in starts
EndsCat(a, k, text, ic, starts) ==
  IF starts = <<>> \/ k > Len(a) THEN starts
  ELSE IF Len(starts) = 1
  THEN EndsCat(a, k + 1, text, ic, Ends(a[k], text, ic, starts[1]))
  ELSE LET RECURSIVE Step(_, _)
           Step(i, acc) ==
             IF i > Len(starts) THEN acc
             ELSE Step(i + 1, AddUniq(acc, Ends(a[k], text, ic, starts[i])))
       IN EndsCat(a, k + 1, text, ic, Step(1, <<>>))

\* a[k] | a[k+1] | ... : the alternatives are tried left to right
EndsAlt(a, k, text, ic, pos) ==
  IF k > Len(a) THEN <<>>
  ELSE AddUniq(Ends(a[k], text, ic, pos), EndsAlt(a, k + 1, text, ic, pos))

\* r{lo,hi}, greedy: one more iteration is tried before stopping
EndsRep(r, lo, hi, text, ic, pos) ==
  IF hi = 0 THEN <<pos>>
  ELSE LET firsts == Ends(r, text, ic, pos)
           more == EndsRepFrom(r, lo, hi, text, ic, firsts, pos)
       IN IF lo = 0 THEN AddUniq(more, <<pos>>) ELSE more

\* the continuations of r{lo,hi} after a first iteration ending in firsts;
\* an iteration that consumes nothing is not repeated
EndsRepFrom(r, lo, hi, text, ic, firsts, pos) ==
  IF firsts = <<>> THEN <<>>
  ELSE LET e == Head(firsts)
           lo1 == IF lo > 0 THEN lo - 1 ELSE 0
           hi1 == IF hi = Unbounded THEN Unbounded ELSE hi - 1
           here == IF e > pos THEN EndsRep(r, lo1, hi1, text, ic, e)
                   ELSE IF lo1 = 0 THEN <<e>> ELSE <<>>
       IN AddUniq(here, EndsRepFrom(r, lo, hi, text, ic, Tail(firsts), pos))

(***************************************************************************)
(* PHIDetector.patterns: the pattern registry, in registration order       *)
(***************************************************************************)
D(lo, hi) == Rep(Cls(Digit), lo, hi)

\* [-.\s]?
Sep == Opt(Cls({"-", "."} \cup Space))

\* [A-Z][a-z]+
CapWord == Cat(<<Cls(Upper), Rep(Cls(Lower), 1, Unbounded)>>)

\* /\b\d{3}-\d{2}-\d{4}\b|\b\d{9}\b/g
SSNPattern ==
  Alt(<<Cat(<<WB, D(3, 3), Ch("-"), D(2, 2), Ch("-"), D(4, 4), WB>>),
        Cat(<<WB, D(9, 9), WB>>)>>)

\* /\b\d{3}-\d{2}-\d{4}-[A-Z]\b/g
MedicarePattern ==
  Cat(<<WB, D(3, 3), Ch("-"), D(2, 2), Ch("-"), D(4, 4), Ch("-"),
        Cls(Upper), WB>>)

\* /\b[A-Za-z0-9._%+-]+@[A-Za-z0-9.-]+\.[A-Z|a-z]{2,}\b/g
EmailPattern ==
  Cat(<<WB,
        Rep(Cls(Upper \cup Lower \cup Digit \cup {".", "_", "%", "+", "-"}),
            1, Unbounded),
        Ch("@"),
        Rep(Cls(Upper \cup Lower \cup Digit \cup {".", "-"}), 1, Unbounded),
        Ch("."),
        Rep(Cls(Upper \cup Lower \cup {"|"}), 2, Unbounded),
        WB>>)

\* /\b(?:\+?1[-.\s]?)?\(?([0-9]{3})\)?[-.\s]?([0-9]{3})[-.\s]?([0-9]{4})\b/g
PhonePattern ==
  Cat(<<WB,
        Opt(Cat(<<Opt(Ch("+")), Ch("1"), Sep>>)),
        Opt(Ch("(")), D(3, 3), Opt(Ch(")")), Sep, D(3, 3), Sep, D(4, 4),
        WB>>)

\* /\b(?:MRN|mrn|Medical Record Number)[:\s]?[\w-]{4,20}\b/gi
MRNPattern ==
  Cat(<<WB,
        Alt(<<Str(<<"M","R","N">>), Str(<<"m","r","n">>), Str(<<"M","e","d","i","c","a","l"," ","R","e","c","o","r","d"," ","N","u","m","b","e","r">>)>>),
        Opt(Cls({":"} \cup Space)),
        Rep(Cls(WordChar \cup {"-"}), 4, 20),
        WB>>)

\* /\b(?:DOB|dob|Date of Birth)[:\s]?\d{1,2}[-/]\d{1,2}[-/]\d{2,4}\b/gi
DOBPattern ==
  Cat(<<WB,
        Alt(<<Str(<<"D","O","B">>), Str(<<"d","o","b">>), Str(<<"D","a","t","e"," ","o","f"," ","B","i","r","t","h">>)>>),
        Opt(Cls({":"} \cup Space)),
        D(1, 2), Cls({"-", "/"}), D(1, 2), Cls({"-", "/"}), D(2, 4),
        WB>>)

\* /\b(?:4[0-9]{12}(?:[0-9]{3})?|5[1-5][0-9]{14}|3[47][0-9]{13}
\*    |3(?:0[0-5]|[68][0-9])[0-9]{11}|6(?:011|5[0-9]{2})[0-9]{12})\b/g
CreditCardPattern ==
  Cat(<<WB,
        Alt(<<Cat(<<Ch("4"), D(12, 12), Opt(D(3, 3))>>),
              Cat(<<Ch("5"), Cls({"1", "2", "3", "4", "5"}), D(14, 14)>>),
              Cat(<<Ch("3"), Cls({"4", "7"}), D(13, 13)>>),
              Cat(<<Ch("3"),
                    Alt(<<Cat(<<Ch("0"), Cls({"0", "1", "2", "3", "4", "5"})>>),
                          Cat(<<Cls({"6", "8"}), D(1, 1)>>)>>),
                    D(11, 11)>>),
              Cat(<<Ch("6"),
                    Alt(<<Str(<<"0", "1", "1">>), Cat(<<Ch("5"), D(2, 2)>>)>>),
                    D(12, 12)>>)>>),
        WB>>)

\* 25[0-5]|2[0-4][0-9]|[01]?[0-9][0-9]?
Octet ==
  Alt(<<Cat(<<Str(<<"2", "5">>), Cls({"0", "1", "2", "3", "4", "5"})>>),
        Cat(<<Ch("2"), Cls({"0", "1", "2", "3", "4"}), D(1, 1)>>),
        Cat(<<Opt(Cls({"0", "1"})), D(1, 1), Opt(Cls(Digit))>>)>>)

\* /\b(?:(?:25[0-5]|2[0-4][0-9]|[01]?[0-9][0-9]?)\.){3}
\*    (?:25[0-5]|2[0-4][0-9]|[01]?[0-9][0-9]?)\b/g
IPPattern == Cat(<<WB, Rep(Cat(<<Octet, Ch(".")>>), 3, 3), Octet, WB>>)

\* /\b(?:patient|Patient|PATIENT)[:\s]+([A-Z][a-z]+(?:\s+[A-Z][a-z]+)+)\b/g
PatientNamePattern ==
  Cat(<<WB,
        Alt(<<Str(<<"p","a","t","i","e","n","t">>), Str(<<"P","a","t","i","e","n","t">>), Str(<<"P","A","T","I","E","N","T">>)>>),
        Rep(Cls({":"} \cup Space), 1, Unbounded),
        CapWord,
        Rep(Cat(<<Rep(Cls(Space), 1, Unbounded), CapWord>>), 1, Unbounded),
        WB>>)

\* /\b(?:Dr\.|Doctor|Physician|Provider)[:\s]+([A-Z][a-z]+(?:\s+[A-Z][a-z]+)?)\b/g
DoctorNamePattern ==
  Cat(<<WB,
        Alt(<<Str(<<"D","r",".">>), Str(<<"D","o","c","t","o","r">>), Str(<<"P","h","y","s","i","c","i","a","n">>), Str(<<"P","r","o","v","i","d","e","r">>)>>),
        Rep(Cls({":"} \cup Space), 1, Unbounded),
        CapWord,
        Opt(Cat(<<Rep(Cls(Space), 1, Unbounded), CapWord>>)),
        WB>>)

\* /\b\d+\s+[A-Za-z\s]+(?:Street|St|Avenue|Ave|Road|Rd|Boulevard|Blvd|Lane
\*    |Ln|Drive|Dr|Court|Ct)\b/gi
AddressPattern ==
  Cat(<<WB,
        D(1, Unbounded),
        Rep(Cls(Space), 1, Unbounded),
        Rep(Cls(Upper \cup Lower \cup Space), 1, Unbounded),
        Alt(<<Str(<<"S","t","r","e","e","t">>), Str(<<"S","t">>), Str(<<"A","v","e","n","u","e">>), Str(<<"A","v","e">>), Str(<<"R","o","a","d">>), Str(<<"R","d">>),
              Str(<<"B","o","u","l","e","v","a","r","d">>), Str(<<"B","l","v","d">>), Str(<<"L","a","n","e">>), Str(<<"L","n">>), Str(<<"D","r","i","v","e">>),
              Str(<<"D","r">>), Str(<<"C","o","u","r","t">>), Str(<<"C","t">>)>>),
        WB>>)

patterns ==
  <<[name |-> "SSN", pattern |-> SSNPattern, ignoreCase |-> FALSE,
     confidence |-> "high", category |-> "identifier"],
    [name |-> "Medicare Number", pattern |-> MedicarePattern,
     ignoreCase |-> FALSE, confidence |-> "high", category |-> "identifier"],
    [name |-> "Email", pattern |-> EmailPattern, ignoreCase |-> FALSE,
     confidence |-> "medium", category |-> "contact"],
    [name |-> "Phone Number", pattern |-> PhonePattern, ignoreCase |-> FALSE,
     confidence |-> "medium", category |-> "contact"],
    [name |-> "Medical Record Number", pattern |-> MRNPattern,
     ignoreCase |-> TRUE, confidence |-> "high", category |-> "medical"],
    [name |-> "Date of Birth", pattern |-> DOBPattern, ignoreCase |-> TRUE,
     confidence |-> "high", category |-> "demographic"],
    [name |-> "Credit Card", pattern |-> CreditCardPattern,
     ignoreCase |-> FALSE, confidence |-> "high", category |-> "financial"],
    [name |-> "IP Address", pattern |-> IPPattern, ignoreCase |-> FALSE,
     confidence |-> "low", category |-> "technical"],
    [name |-> "Patient Name Context", pattern |-> PatientNamePattern,
     ignoreCase |-> FALSE, confidence |-> "medium",
     category |-> "demographic"],
    [name |-> "Doctor Name Context", pattern |-> DoctorNamePattern,
     ignoreCase |-> FALSE, confidence |-> "medium", category |-> "provider"],
    [name |-> "Address", pattern |-> AddressPattern, ignoreCase |-> TRUE,
     confidence |-> "medium", category |-> "demographic"]>>

NumPatterns == Len(patterns)

(***************************************************************************)
(* RegExp.prototype.exec on a global pattern, and PHIDetector.detect       *)
(***************************************************************************)
Null == [index |-> 0 - 1, end |-> 0 - 1, lastIndex |-> 0]

\* for every position of the text, the end of the match of the pattern
\* that starts there, NoEnd when there is none
NoEnd == 0 - 1

MatchEnds(p, text) ==
  [i \in 0..Len(text) |->
     LET es == Ends(p.pattern, text, p.ignoreCase, i)
     IN IF es = <<>> THEN NoEnd ELSE es[1]]

\* pattern.exec(text) with pattern.lastIndex = lastIndex, ends being
\* MatchEnds(pattern, text): the leftmost match at or after lastIndex,
\* whose end becomes lastIndex; no match gives null and lastIndex 0
Exec(ends, lastIndex) ==
  LET hits == {i \in DOMAIN ends : i >= lastIndex /\ ends[i] # NoEnd}
  IN IF hits = {} THEN Null
     ELSE LET i == CHOOSE i \in hits : \A j \in hits : i <= j
          IN [index |-> i, end |-> ends[i], lastIndex |-> ends[i]]

\* text.substring(from, to) for 0 <= from <= to: both ends clamped to the length
Substring(text, from, to) ==
  LET n == Len(text)
      a == IF from > n THEN n ELSE from
      b == IF to > n THEN n ELSE to
  IN SubSeq(text, a + 1, b)

PHIMatch(p, text, m) ==
  [type |-> p.name,
   value |-> Substring(text, m.index, m.end),
   startIndex |-> m.index,
   endIndex |-> m.index + (m.end - m.index),
   confidence |-> p.confidence,
   category |-> p.category]

RECURSIVE ExecLoop(_, _, _, _, _)
\* while ((match = pattern.exec(text)) !== null) matches.push(...)
ExecLoop(p, text, ends, lastIndex, acc) ==
  LET m == Exec(ends, lastIndex)
  IN IF m.index < 0 THEN [matches |-> acc, lastIndex |-> m.lastIndex]
     ELSE ExecLoop(p, text, ends, m.lastIndex,
                   Append(acc, PHIMatch(p, text, m)))

\* a single exec from the cursor the previous call left behind
ScanPatternStale(p, text, lastIndex) ==
  LET m == Exec(MatchEnds(p, text), lastIndex)
  IN [matches |-> IF m.index < 0 THEN <<>> ELSE <<PHIMatch(p, text, m)>>,
      lastIndex |-> m.lastIndex]

\* the body of the forEach for one pattern; lastIndex is the cursor the
\* pattern object holds on entry, which is reset before the scan
ScanPattern(p, text, lastIndex) ==
  ExecLoop(p, text, MatchEnds(p, text), 0, <<>>)

RECURSIVE InsertByStart(_, _)
\* m placed after every element of the sorted list whose startIndex is not
\* greater (Array.prototype.sort is stable)
InsertByStart(sorted, m) ==
  IF sorted = <<>> THEN <<m>>
  ELSE IF Head(sorted).startIndex - m.startIndex <= 0
       THEN <<Head(sorted)>> \o InsertByStart(Tail(sorted), m)
       ELSE <<m>> \o sorted

RECURSIVE SortByStart(_, _)
\* matches.sort((a, b) => a.startIndex - b.startIndex)
SortByStart(ms, acc) ==
  IF ms = <<>> THEN acc
  ELSE SortByStart(Tail(ms), InsertByStart(acc, Head(ms)))

RECURSIVE DetectFrom(_, _, _, _)
\* the forEach over the patterns from pattern k on: acc.matches is the list
\* collected so far, acc.lastIndex the cursors of all pattern objects
DetectFrom(k, text, lastIndex, acc) ==
  IF k > NumPatterns THEN [matches |-> acc, lastIndex |-> lastIndex]
  ELSE LET r == ScanPattern(patterns[k], text, lastIndex[k])
       IN DetectFrom(k + 1, text,
                     [lastIndex EXCEPT ![k] = r.lastIndex],
                     acc \o r.matches)

\* detect without the final sort: the matches in the order they were pushed
detectWithUnsorted(text, lastIndex) ==
  DetectFrom(1, text, lastIndex, <<>>)

\* detector.detect(text) on a detector whose pattern objects hold the
\* cursors lastIndex: the sorted matches and the cursors left behind
detectWith(text, lastIndex) ==
  LET r == DetectFrom(1, text, lastIndex, <<>>)
  IN [matches |-> SortByStart(r.matches, <<>>), lastIndex |-> r.lastIndex]

\* the place of the pattern called name in the patterns array
PatternIndex(name) ==
  CHOOSE k \in 1..NumPatterns : patterns[k].name = name

\* the cursors of a newly constructed detector
FreshCursors == [k \in 1..NumPatterns |-> 0]

\* detect(text) on a newly constructed detector
detect(text) == detectWith(text, FreshCursors).matches

\* matches.filter(m => m.confidence === 'high').length
CountHigh(matches) ==
  Cardinality({i \in 1..Len(matches) : matches[i].confidence = "high"})

RECURSIVE UniqueCategories(_, _)
\* [...new Set(matches.map(m => m.category))]: first occurrences, in order
UniqueCategories(matches, acc) ==
  IF matches = <<>> THEN acc
  ELSE UniqueCategories(Tail(matches),
                        AddUniq(acc, <<Head(matches).category>>))

\* the threshold for a high risk by the number of high-confidence matches
\* is too large by one
analyzeRiskLate(matches) ==
  IF Len(matches) = 0
  THEN [riskLevel |-> "none", phiCount |-> 0, categories |-> <<>>,
        highConfidenceCount |-> 0]
  ELSE [riskLevel |->
          IF CountHigh(matches) >= 4 \/ Len(matches) >= 5 THEN "high"
          ELSE IF CountHigh(matches) >= 1 \/ Len(matches) >= 3 THEN "medium"
          ELSE "low",
        phiCount |-> Len(matches),
        categories |-> UniqueCategories(matches, <<>>),
        highConfidenceCount |-> CountHigh(matches)]

\* analyzeRisk(text), matches being what this.detect(text) returned
analyzeRisk(matches) ==
  IF Len(matches) = 0
  THEN [riskLevel |-> "none", phiCount |-> 0, categories |-> <<>>,
        highConfidenceCount |-> 0]
  ELSE [riskLevel |->
          IF CountHigh(matches) >= 3 \/ Len(matches) >= 5 THEN "high"
          ELSE IF CountHigh(matches) >= 1 \/ Len(matches) >= 3 THEN "medium"
          ELSE "low",
        phiCount |-> Len(matches),
        categories |-> UniqueCategories(matches, <<>>),
        highConfidenceCount |-> CountHigh(matches)]

(***************************************************************************)
(* PHIRedactor                                                             *)
(***************************************************************************)
OptionFields ==
  {"redactionChar", "preserveLength", "showPartial", "partialChars",
   "useHash", "hashPrefix"}

defaultOptions ==
  [redactionChar |-> <<"*">>,
   preserveLength |-> TRUE,
   showPartial |-> FALSE,
   partialChars |-> 2,
   useHash |-> FALSE,
   hashPrefix |-> <<"H", "A", "S", "H", "_">>]

\* { ...this.defaultOptions, ...options }: options is a record with some of
\* the option fields
MergeOptions(options) ==
  [f \in OptionFields |->
     IF f \in DOMAIN options THEN options[f] ELSE defaultOptions[f]]

RECURSIVE Repeat(_, _)
\* s.repeat(n)
Repeat(s, n) == IF n <= 0 THEN <<>> ELSE s \o Repeat(s, n - 1)

HexSeq ==
  <<"0","1","2","3","4","5","6","7","8","9","a","b","c","d","e","f">>

CodeSeq ==
  UpperSeq \o LowerSeq \o
  <<"0","1","2","3","4","5","6","7","8","9"," ","-",".","@","_",":","/">>

CharCode(c) ==
  IF \E i \in 1..Len(CodeSeq) : CodeSeq[i] = c
  THEN CHOOSE i \in 1..Len(CodeSeq) : CodeSeq[i] = c
  ELSE 0

RECURSIVE Digest(_, _)
Digest(value, h) ==
  IF value = <<>> THEN h
  ELSE Digest(Tail(value), (h * 31 + CharCode(Head(value)) + 7) % 65536)

\* CryptoJS.SHA256(value).toString().substring(0, 8): eight hexadecimal
\* digits that are a function of the value (a stand-in for the digest of
\* the library, which the model does not compute)
SHA256Hex8(value) ==
  LET h == Digest(value, 5381)
      n == Len(value) % 16
  IN <<HexSeq[(h % 16) + 1], HexSeq[((h \div 16) % 16) + 1],
       HexSeq[((h \div 256) % 16) + 1], HexSeq[((h \div 4096) % 16) + 1],
       HexSeq[n + 1], HexSeq[((h + n) % 16) + 1],
       HexSeq[((h \div 16 + n) % 16) + 1], HexSeq[((h \div 256 + n) % 16) + 1]>>

\* the preserveLength branch one character too long
generateReplacementLong(value, options) ==
  IF options.useHash
  THEN options.hashPrefix \o SHA256Hex8(value)
  ELSE IF options.showPartial /\ Len(value) > options.partialChars * 2
  THEN Substring(value, 0, options.partialChars)
       \o Repeat(options.redactionChar,
                 Len(value) - (options.partialChars * 2))
       \o Substring(value, Len(value) - options.partialChars, Len(value))
  ELSE IF options.preserveLength
  THEN Repeat(options.redactionChar, Len(value) + 1)
  ELSE <<"[">> \o options.redactionChar
       \o <<"R", "E", "D", "A", "C", "T", "E", "D">>
       \o options.redactionChar \o <<"]">>

\* the showPartial branch taken from a length of 2 * partialChars on
generateReplacementWhole(value, options) ==
  IF options.useHash
  THEN options.hashPrefix \o SHA256Hex8(value)
  ELSE IF options.showPartial /\ Len(value) >= options.partialChars * 2
  THEN Substring(value, 0, options.partialChars)
       \o Repeat(options.redactionChar,
                 Len(value) - (options.partialChars * 2))
       \o Substring(value, Len(value) - options.partialChars, Len(value))
  ELSE IF options.preserveLength
  THEN Repeat(options.redactionChar, Len(value))
  ELSE <<"[">> \o options.redactionChar
       \o <<"R", "E", "D", "A", "C", "T", "E", "D">>
       \o options.redactionChar \o <<"]">>

generateReplacement(value, options) ==
  IF options.useHash
  THEN options.hashPrefix \o SHA256Hex8(value)
  ELSE IF options.showPartial /\ Len(value) > options.partialChars * 2
  THEN Substring(value, 0, options.partialChars)
       \o Repeat(options.redactionChar,
                 Len(value) - (options.partialChars * 2))
       \o Substring(value, Len(value) - options.partialChars, Len(value))
  ELSE IF options.preserveLength
  THEN Repeat(options.redactionChar, Len(value))
  ELSE <<"[">> \o options.redactionChar
       \o <<"R", "E", "D", "A", "C", "T", "E", "D">>
       \o options.redactionChar \o <<"]">>

\* matches.reverse()
Reverse(ms) == [i \in 1..Len(ms) |-> ms[Len(ms) - i + 1]]

\* The working text is a sequence of cells: c is the character and o the
\* index in the original text the character was copied from, NoOrigin for
\* a character written by a replacement.  The characters are what the code
\* computes; the origins only record where they come from.
NoOrigin == 0 - 1

Cells(text) == [i \in 1..Len(text) |-> [c |-> text[i], o |-> i - 1]]

Written(s) == [i \in 1..Len(s) |-> [c |-> s[i], o |-> NoOrigin]]

Chars(cells) == [i \in 1..Len(cells) |-> cells[i].c]

RECURSIVE ReplaceAllDisjoint(_, _, _)
\* a match is left alone when a replacement has already been written
\* inside its span
ReplaceAllDisjoint(cells, reversed, opts) ==
  IF reversed = <<>> THEN cells
  ELSE LET match == Head(reversed)
           replacement == generateReplacement(match.value, opts)
           startPos == match.startIndex
           endPos == match.endIndex
           touched == \E i \in (startPos + 1)..endPos :
                        i <= Len(cells) /\ cells[i].o = NoOrigin
       IN IF touched THEN ReplaceAllDisjoint(cells, Tail(reversed), opts)
          ELSE ReplaceAllDisjoint(Substring(cells, 0, startPos)
                                    \o Written(replacement)
                                    \o Substring(cells, endPos, Len(cells)),
                                  Tail(reversed), opts)

RECURSIVE ReplaceAll(_, _, _)
\* the forEach over the reversed matches: each one splices its replacement
\* into the working text at [startIndex, endIndex)
ReplaceAll(cells, reversed, opts) ==
  IF reversed = <<>> THEN cells
  ELSE LET match == Head(reversed)
           replacement == generateReplacement(match.value, opts)
           startPos == match.startIndex
           endPos == match.endIndex
       IN ReplaceAll(Substring(cells, 0, startPos)
                       \o Written(replacement)
                       \o Substring(cells, endPos, Len(cells)),
                     Tail(reversed), opts)

\* the matches as they are returned without the second reverse()
ReturnedMatchesKept(reversed) == reversed

\* matches: matches.reverse(), the second reversal of the array
ReturnedMatches(reversed) == Reverse(reversed)

\* the result of redact and redactByType for the matches to rewrite;
\* cells is redactedText with the origin of each character
RedactionResult(text, matches, opts) ==
  IF Len(matches) = 0
  THEN [redactedText |-> text,
        matches |-> <<>>,
        redactionCount |-> 0,
        originalLength |-> Len(text),
        redactedLength |-> Len(text),
        cells |-> Cells(text)]
  ELSE LET reversed == Reverse(matches)
           cells == ReplaceAll(Cells(text), reversed, opts)
       IN [redactedText |-> Chars(cells),
           matches |-> ReturnedMatches(reversed),
           redactionCount |-> Len(reversed),
           originalLength |-> Len(text),
           redactedLength |-> Len(Chars(cells)),
           cells |-> cells]

\* redact(text, options), detected being this.detector.detect(text)
redact(text, options, detected) ==
  RedactionResult(text, detected, MergeOptions(options))

\* matches.filter(match => allowedTypes.includes(match.type))
FilterByType(ms, allowedTypes) ==
  SelectSeq(ms, LAMBDA m : m.type \in allowedTypes)

\* redactByType(text, allowedTypes, options)
redactByType(text, allowedTypes, options, detected) ==
  RedactionResult(text, FilterByType(detected, allowedTypes),
                  MergeOptions(options))

PreviewOptions ==
  [redactionChar |-> <<"█">>,
   preserveLength |-> FALSE,
   showPartial |-> FALSE,
   useHash |-> FALSE]

\* createSafePreview(text, maxLength): the cells of the preview
createSafePreview(text, maxLength, detected) ==
  LET result == redact(text, PreviewOptions, detected)
  IN IF Len(result.redactedText) > maxLength
     THEN Substring(result.cells, 0, maxLength) \o Written(<<".", ".", ".">>)
     ELSE result.cells

(***************************************************************************)
(* The inputs of the detector and the redactor                             *)
(***************************************************************************)
\* a text is made of at most MaxFrags fragments
MaxFrags == 2

\* "123-45-6789", "-A", "u@1.2.3.4.co", "u@4111111111111111.co ", " ", "0",
\* "555 123 4567", " Main St"
Fragments ==
  <<<<"1","2","3","-","4","5","-","6","7","8","9">>,
    <<"-","A">>,
    <<"u","@","1",".","2",".","3",".","4",".","c","o">>,
    <<"u","@","4","1","1","1","1","1","1","1","1","1","1","1","1","1","1","1",".","c","o"," ">>,
    <<" ">>,
    <<"0">>,
    <<"5","5","5"," ","1","2","3"," ","4","5","6","7">>,
    <<" ","M","a","i","n"," ","S","t">>>>

RECURSIVE TextsOf(_)
TextsOf(n) ==
  IF n = 0 THEN {<<>>}
  ELSE LET shorter == TextsOf(n - 1)
       IN shorter \cup {t \o Fragments[i] : t \in shorter,
                                            i \in 1..Len(Fragments)}

\* whole texts: those of the tests and of the examples, and a text with a
\* phone number, a Medicare number that starts with an SSN and a card number
\*   1  "Contact patient@email.com or call 555-123-4567"
\*   2  "DOB: 01/15/1990"
\*   3  "MRN: MED123456789"
\*   4  "555 123 4567 123-45-6789-A 4111111111111111"
Examples ==
  <<
   <<"C","o","n","t","a","c","t"," ","p","a","t","i","e","n","t","@","e",
    "m","a","i","l",".","c","o","m"," ","o","r"," ","c","a","l","l"," ","5",
    "5","5","-","1","2","3","-","4","5","6","7">>,
   <<"D","O","B",":"," ","0","1","/","1","5","/","1","9","9","0">>,
   <<"M","R","N",":"," ","M","E","D","1","2","3","4","5","6","7","8","9">>,
   <<"5","5","5"," ","1","2","3"," ","4","5","6","7"," ","1","2","3","-",
    "4","5","-","6","7","8","9","-","A"," ","4","1","1","1","1","1","1","1",
    "1","1","1","1","1","1","1","1">>
  >>

Texts == TextsOf(MaxFrags) \cup {Examples[i] : i \in 1..Len(Examples)}

\* the options a caller passes (a Partial<RedactionOptions>); redactionChar
\* is one character and partialChars is not negative
OptionChoices ==
  <<<< >>,
    [preserveLength |-> TRUE, redactionChar |-> <<"#">>],
    [preserveLength |-> FALSE],
    [useHash |-> TRUE],
    [showPartial |-> TRUE],
    [showPartial |-> TRUE, partialChars |-> 0, preserveLength |-> FALSE]>>

AllowedTypeChoices ==
  {{"Email"}, {"SSN"}, {"Email", "Credit Card"}, {"Phone Number", "Address"}}

\* 200 is the default of createSafePreview
MaxLengthChoices == {0, 11, 14, 200}

(***************************************************************************)
(* AuditLogger: events, compliance flags, storage                          *)
(***************************************************************************)
\* private readonly maxEvents = 10000, scaled down so that the model
\* reaches the cap; every formula refers to it by name
maxEvents == 3

\* the 1000 of persistEvent ("Keep only last 1000 events in localStorage"),
\* scaled down in the same way and kept smaller than maxEvents
maxPersisted == 2

\* record[field] is supplied and truthy; the field holds a string (falsy
\* when empty), a number (falsy when 0) or a boolean
TruthyString(record, field) == field \in DOMAIN record /\ record[field] # ""

TruthyNumber(record, field) == field \in DOMAIN record /\ record[field] # 0

TruthyBoolean(record, field) == field \in DOMAIN record /\ record[field]

\* hipaa_high_risk_phi pushed for a critical phi_detected event as well
generateComplianceFlagsAnyRisk(action, details, riskLevel) ==
  (IF action = "phi_detected"
   THEN <<"hipaa_phi_detection">>
        \o (IF riskLevel = "high" \/ riskLevel = "critical"
            THEN <<"hipaa_high_risk_phi">> ELSE <<>>)
   ELSE <<>>)
  \o (IF action = "phi_redacted" THEN <<"hipaa_phi_redaction">> ELSE <<>>)
  \o (IF action = "data_exported" /\ TruthyBoolean(details, "containsPHI")
      THEN <<"hipaa_phi_export">> ELSE <<>>)
  \o (IF action = "permission_denied"
      THEN <<"access_control_violation">> ELSE <<>>)
  \o (IF /\ action = "file_uploaded"
         /\ TruthyString(details, "fileType")
         /\ details.fileType \in {"xlsx", "csv", "txt"}
      THEN <<"structured_data_upload">> ELSE <<>>)

generateComplianceFlags(action, details, riskLevel) ==
  (IF action = "phi_detected"
   THEN <<"hipaa_phi_detection">>
        \o (IF riskLevel = "high" THEN <<"hipaa_high_risk_phi">> ELSE <<>>)
   ELSE <<>>)
  \o (IF action = "phi_redacted" THEN <<"hipaa_phi_redaction">> ELSE <<>>)
  \o (IF action = "data_exported" /\ TruthyBoolean(details, "containsPHI")
      THEN <<"hipaa_phi_export">> ELSE <<>>)
  \o (IF action = "permission_denied"
      THEN <<"access_control_violation">> ELSE <<>>)
  \o (IF /\ action = "file_uploaded"
         /\ TruthyString(details, "fileType")
         /\ details.fileType \in {"xlsx", "csv", "txt"}
      THEN <<"structured_data_upload">> ELSE <<>>)

\* 'audit_' + Date.now() + '_' + Math.random().toString(36).substr(2, 9):
\* the clock reading and the random suffix
generateId(time, random) == [time |-> time, random |-> random]

\* the event that log builds from its arguments
AuditEvent(in, time, random) ==
  [id |-> generateId(time, random),
   timestamp |-> time,
   userId |-> in.userId,
   action |-> in.action,
   resourceType |-> in.resourceType,
   resourceId |-> in.resourceId,
   details |-> in.details,
   riskLevel |-> in.riskLevel,
   complianceFlags |->
     generateComplianceFlags(in.action, in.details, in.riskLevel),
   ipAddress |-> "127.0.0.1",
   userAgent |-> "Unknown"]

\* JSON.stringify of an event: the Date becomes its ISO string
ToJSON(event) == [event EXCEPT !.timestamp = <<"ISO", @>>]

\* { ...event, timestamp: new Date(event.timestamp) } on a parsed event
FromJSON(stored) == [stored EXCEPT !.timestamp = @[2]]

\* the event not inserted in the synchronous part of log
UnshiftLater(evs, event) == evs

\* the event written over the head, as an insert that started from the
\* array another insert has not yet written back
UnshiftOver(evs, event) ==
  IF evs = <<>> THEN <<event>> ELSE <<event>> \o Tail(evs)

\* the events appended at the tail instead of the head
Push(evs, event) == Append(evs, event)

\* this.events.unshift(event)
Unshift(evs, event) == <<event>> \o evs

\* the cap drops the newest events instead of the oldest
TruncateNewest(evs) ==
  IF Len(evs) > maxEvents
  THEN SubSeq(evs, Len(evs) - maxEvents + 1, Len(evs)) ELSE evs

\* the cap applied one element too late
TruncateLate(evs) ==
  IF Len(evs) > maxEvents + 1 THEN SubSeq(evs, 1, maxEvents + 1) ELSE evs

\* if (this.events.length > this.maxEvents)
\*   this.events = this.events.slice(0, this.maxEvents)
Truncate(evs) ==
  IF Len(evs) > maxEvents THEN SubSeq(evs, 1, maxEvents) ELSE evs

\* localStorage without the 'phi_audit_logs' item
NoItem == [present |-> FALSE, logs |-> <<>>]

\* what the storage can do to one persistEvent call
Faults == {"none", "getItem", "setItem"}

\* persistEvent with logs.push(event): the event goes to the tail
persistEventPush(store, event, fault) ==
  IF fault # "none" THEN [store |-> store, rejected |-> FALSE]
  ELSE LET existing == IF store.present THEN store.logs ELSE <<>>
           logs == Append(existing, ToJSON(event))
           kept == IF Len(logs) > maxPersisted
                   THEN SubSeq(logs, 1, maxPersisted) ELSE logs
       IN [store |-> [present |-> TRUE, logs |-> kept], rejected |-> FALSE]

\* persistEvent without the splice: the stored list is never cut
persistEventUncapped(store, event, fault) ==
  IF fault # "none" THEN [store |-> store, rejected |-> FALSE]
  ELSE LET existing == IF store.present THEN store.logs ELSE <<>>
       IN [store |-> [present |-> TRUE,
                      logs |-> <<ToJSON(event)>> \o existing],
           rejected |-> FALSE]

\* persistEvent without the try/catch: a storage error rejects its promise
persistEventUncaught(store, event, fault) ==
  IF fault # "none" THEN [store |-> store, rejected |-> TRUE]
  ELSE LET existing == IF store.present THEN store.logs ELSE <<>>
           logs == <<ToJSON(event)>> \o existing
           kept == IF Len(logs) > maxPersisted
                   THEN SubSeq(logs, 1, maxPersisted) ELSE logs
       IN [store |-> [present |-> TRUE, logs |-> kept], rejected |-> FALSE]

\* persistEvent(event): the storage afterwards, and whether the promise it
\* returns is rejected; an error of getItem or setItem is caught
persistEvent(store, event, fault) ==
  IF fault # "none" THEN [store |-> store, rejected |-> FALSE]
  ELSE LET existing == IF store.present THEN store.logs ELSE <<>>
           logs == <<ToJSON(event)>> \o existing
           kept == IF Len(logs) > maxPersisted
                   THEN SubSeq(logs, 1, maxPersisted) ELSE logs
       IN [store |-> [present |-> TRUE, logs |-> kept], rejected |-> FALSE]

\* loadPersistedEvents(): this.events of a new AuditLogger
loadPersistedEvents(store) ==
  IF store.present
  THEN [i \in 1..Len(store.logs) |-> FromJSON(store.logs[i])]
  ELSE <<>>

\* getEvents(filter); filter is a record with some of the fields userId,
\* action, riskLevel, dateRange and limit
getEvents(evs, filter) ==
  LET byUser == IF TruthyString(filter, "userId")
                THEN SelectSeq(evs, LAMBDA e : e.userId = filter.userId)
                ELSE evs
      byAction == IF TruthyString(filter, "action")
                  THEN SelectSeq(byUser, LAMBDA e : e.action = filter.action)
                  ELSE byUser
      byRisk == IF TruthyString(filter, "riskLevel")
                THEN SelectSeq(byAction,
                               LAMBDA e : e.riskLevel = filter.riskLevel)
                ELSE byAction
      byDate == IF "dateRange" \in DOMAIN filter
                THEN SelectSeq(byRisk,
                               LAMBDA e :
                                 /\ e.timestamp >= filter.dateRange.start
                                 /\ e.timestamp <= filter.dateRange.end)
                ELSE byRisk
  IN IF TruthyNumber(filter, "limit")
     THEN Substring(byDate, 0, filter.limit)
     ELSE byDate

\* getEvents() without a filter
NoFilter == << >>

\* the words of a compliance flag, which are joined by "_"
FlagWords(flag) ==
  CASE flag = "hipaa_phi_detection" -> <<"hipaa", "phi", "detection">>
    [] flag = "hipaa_high_risk_phi" -> <<"hipaa", "high", "risk", "phi">>
    [] flag = "hipaa_phi_redaction" -> <<"hipaa", "phi", "redaction">>
    [] flag = "hipaa_phi_export" -> <<"hipaa", "phi", "export">>
    [] flag = "access_control_violation" ->
         <<"access", "control", "violation">>
    [] flag = "structured_data_upload" -> <<"structured", "data", "upload">>

\* flag === word instead of flag.includes(word)
IncludesWhole(flag, word) == flag = word

\* flag.includes(word), for a word that has no "_" and is no part of
\* another word of a flag
Includes(flag, word) ==
  \E i \in 1..Len(FlagWords(flag)) : FlagWords(flag)[i] = word

\* getComplianceMetrics() without a dateRange
NoRange == << >>

\* the count of phi_redacted events taken for the count of phi_detected
\* events
getComplianceMetricsRedactionsTwice(evs, dateRange, time) ==
  LET considered == IF dateRange # NoRange
                    THEN getEvents(evs, [dateRange |-> dateRange])
                    ELSE evs
      n == Len(considered)
  IN [totalEvents |-> n,
      phiDetections |->
        Len(SelectSeq(considered, LAMBDA e : e.action = "phi_redacted")),
      redactions |->
        Len(SelectSeq(considered, LAMBDA e : e.action = "phi_redacted")),
      highRiskEvents |->
        Len(SelectSeq(considered,
                      LAMBDA e : \/ e.riskLevel = "high"
                                 \/ e.riskLevel = "critical")),
      complianceViolations |->
        Len(SelectSeq(considered, LAMBDA e :
                     \E i \in 1..Len(e.complianceFlags) :
                       \/ Includes(e.complianceFlags[i], "violation")
                       \/ Includes(e.complianceFlags[i], "breach"))),
      timeRange |->
        IF dateRange # NoRange THEN dateRange
        ELSE [start |-> IF n > 0 THEN considered[n].timestamp ELSE time,
              end |-> IF n > 0 THEN considered[1].timestamp ELSE time]]

\* no time range without a considered event
getComplianceMetricsUnguarded(evs, dateRange, time) ==
  LET considered == IF dateRange # NoRange
                    THEN getEvents(evs, [dateRange |-> dateRange])
                    ELSE evs
      n == Len(considered)
  IN [totalEvents |-> n,
      phiDetections |->
        Len(SelectSeq(considered, LAMBDA e : e.action = "phi_detected")),
      redactions |->
        Len(SelectSeq(considered, LAMBDA e : e.action = "phi_redacted")),
      highRiskEvents |->
        Len(SelectSeq(considered,
                      LAMBDA e : \/ e.riskLevel = "high"
                                 \/ e.riskLevel = "critical")),
      complianceViolations |->
        Len(SelectSeq(considered, LAMBDA e :
                     \E i \in 1..Len(e.complianceFlags) :
                       \/ Includes(e.complianceFlags[i], "violation")
                       \/ Includes(e.complianceFlags[i], "breach"))),
      timeRange |->
        IF dateRange # NoRange THEN dateRange
        ELSE IF n > 0
        THEN [start |-> considered[n].timestamp,
              end |-> considered[1].timestamp]
        ELSE << >>]

\* getComplianceMetrics(dateRange) when the clock shows time; dateRange is
\* NoRange when the argument is left out
getComplianceMetrics(evs, dateRange, time) ==
  LET considered == IF dateRange # NoRange
                    THEN getEvents(evs, [dateRange |-> dateRange])
                    ELSE evs
      n == Len(considered)
  IN [totalEvents |-> n,
      phiDetections |->
        Len(SelectSeq(considered, LAMBDA e : e.action = "phi_detected")),
      redactions |->
        Len(SelectSeq(considered, LAMBDA e : e.action = "phi_redacted")),
      highRiskEvents |->
        Len(SelectSeq(considered,
                      LAMBDA e : \/ e.riskLevel = "high"
                                 \/ e.riskLevel = "critical")),
      complianceViolations |->
        Len(SelectSeq(considered, LAMBDA e :
                     \E i \in 1..Len(e.complianceFlags) :
                       \/ Includes(e.complianceFlags[i], "violation")
                       \/ Includes(e.complianceFlags[i], "breach"))),
      timeRange |->
        IF dateRange # NoRange THEN dateRange
        ELSE [start |-> IF n > 0 THEN considered[n].timestamp ELSE time,
              end |-> IF n > 0 THEN considered[1].timestamp ELSE time]]

(***************************************************************************)
(* The inputs of the audit logger                                          *)
(***************************************************************************)
\* log is called at most MaxLogs times
MaxLogs == 2

\* at most MaxInFlight log calls have not settled
MaxInFlight == 2

\* the clock shows 0..MaxTime
MaxTime == 1

\* the arguments of the log calls
LogInputs ==
  <<[userId |-> "u1", action |-> "file_uploaded", resourceType |-> "file",
     resourceId |-> "a.csv", details |-> [fileType |-> "csv"],
     riskLevel |-> "low"],
    [userId |-> "u1", action |-> "phi_redacted", resourceType |-> "data",
     resourceId |-> "doc1", details |-> [redactionCount |-> 1],
     riskLevel |-> "medium"],
    [userId |-> "u2", action |-> "phi_detected", resourceType |-> "data",
     resourceId |-> "doc1", details |-> [matchCount |-> 1],
     riskLevel |-> "high"],
    [userId |-> "u2", action |-> "permission_denied",
     resourceType |-> "system", resourceId |-> "admin", details |-> << >>,
     riskLevel |-> "critical"]>>

\* the log calls made, each with the suffix
\* Math.random().toString(36).substr(2, 9) gave it
Calls ==
  {[in |-> LogInputs[1], random |-> "k3x9"],
   [in |-> LogInputs[2], random |-> "q7m2"],
   [in |-> LogInputs[3], random |-> "k3x9"],
   [in |-> LogInputs[3], random |-> "q7m2"],
   [in |-> LogInputs[4], random |-> "k3x9"]}

\* the arguments of the log calls a page makes one after the other, each
\* awaited: every action and risk level that generateComplianceFlags tells
\* apart, and actions it does not look at
AwaitedInputs ==
  {[userId |-> "u2", action |-> "phi_detected", resourceType |-> "data",
    resourceId |-> "doc1",
    details |-> [phiTypes |-> <<"SSN">>, confidence |-> "high",
                 matchCount |-> 1],
    riskLevel |-> "high"],
   [userId |-> "u2", action |-> "phi_detected", resourceType |-> "data",
    resourceId |-> "doc1", details |-> [matchCount |-> 1],
    riskLevel |-> "critical"],
   [userId |-> "u2", action |-> "phi_detected", resourceType |-> "data",
    resourceId |-> "doc1", details |-> [matchCount |-> 1],
    riskLevel |-> "low"],
   [userId |-> "u1", action |-> "phi_redacted", resourceType |-> "data",
    resourceId |-> "doc1", details |-> [redactionCount |-> 1],
    riskLevel |-> "high"],
   [userId |-> "u1", action |-> "data_exported", resourceType |-> "data",
    resourceId |-> "doc1", details |-> [containsPHI |-> TRUE],
    riskLevel |-> "medium"],
   [userId |-> "u1", action |-> "data_exported", resourceType |-> "data",
    resourceId |-> "doc1", details |-> [containsPHI |-> FALSE],
    riskLevel |-> "high"],
   [userId |-> "u1", action |-> "data_exported", resourceType |-> "data",
    resourceId |-> "doc1", details |-> << >>,
    riskLevel |-> "low"],
   [userId |-> "u2", action |-> "permission_denied",
    resourceType |-> "system", resourceId |-> "admin", details |-> << >>,
    riskLevel |-> "critical"],
   [userId |-> "u1", action |-> "file_uploaded", resourceType |-> "file",
    resourceId |-> "a.xlsx", details |-> [fileType |-> "xlsx"],
    riskLevel |-> "low"],
   [userId |-> "u1", action |-> "file_uploaded", resourceType |-> "file",
    resourceId |-> "a.pdf", details |-> [fileType |-> "pdf"],
    riskLevel |-> "medium"],
   [userId |-> "u1", action |-> "file_uploaded", resourceType |-> "file",
    resourceId |-> "a", details |-> [fileType |-> ""],
    riskLevel |-> "low"],
   [userId |-> "u1", action |-> "file_downloaded", resourceType |-> "file",
    resourceId |-> "a.csv", details |-> [fileType |-> "csv"],
    riskLevel |-> "low"],
   [userId |-> "u1", action |-> "security_violation",
    resourceType |-> "system", resourceId |-> "admin", details |-> << >>,
    riskLevel |-> "critical"]}

\* the confidence values logPHIDetection is called with
ConfidenceChoices == {"high", "medium", "low"}

\* the file types logFileOperation is called with
FileTypeChoices == {"csv", "pdf"}

(***************************************************************************)
(* State                                                                   *)
(***************************************************************************)
VARIABLES
  lastIndex,          \* PHIDetector: pattern.lastIndex of each pattern object
  scanned,            \* a detect call on that detector has returned before
  redactorLastIndex,  \* pattern.lastIndex in the detector the PHIRedactor owns
  call,               \* the call made last, with its arguments and result
  events,             \* AuditLogger.events, newest first
  storage,            \* localStorage item 'phi_audit_logs'
  now,                \* the clock
  inFlight,           \* the log calls that have not settled
  settled,            \* the log call that settled last, with its outcome
  last,               \* the log call made last on this AuditLogger
  loaded,             \* the number of events the constructor loaded
  sessionLogs,        \* the number of log calls on this AuditLogger
  logCount            \* the number of log calls in all

detectorVars == <<lastIndex, scanned, redactorLastIndex, call>>

loggerVars ==
  <<events, storage, now, inFlight, settled, last, loaded, sessionLogs,
    logCount>>

vars ==
  <<lastIndex, scanned, redactorLastIndex, call, events, storage, now,
    inFlight, settled, last, loaded, sessionLogs, logCount>>

Idle == [op |-> "idle"]

None == [n |-> 0]

DetectorInit ==
  /\ lastIndex = FreshCursors
  /\ scanned = FALSE
  /\ redactorLastIndex = FreshCursors
  /\ call = Idle

\* an earlier page load ended before the clock of this one started
PriorTime == 0 - 1

\* what localStorage holds when the module is loaded: nothing, or the
\* full list an earlier page load persisted, newest first
PriorStores ==
  {NoItem,
   [present |-> TRUE,
    logs |-> <<ToJSON(AuditEvent(LogInputs[1], PriorTime, "k3x9")),
               ToJSON(AuditEvent(LogInputs[3], PriorTime - 1, "q7m2"))>>]}

\* export const auditLogger = new AuditLogger(): the constructor loads the
\* persisted list
LoggerInit ==
  /\ storage \in PriorStores
  /\ events = loadPersistedEvents(storage)
  /\ now = 0
  /\ inFlight = {}
  /\ settled = None
  /\ last = None
  /\ loaded = Len(loadPersistedEvents(storage))
  /\ sessionLogs = 0
  /\ logCount = 0

Init == DetectorInit /\ LoggerInit

(***************************************************************************)
(* AuditLogger: log, from the call to the settling of its promise          *)
(***************************************************************************)
\* critical events left out
HighRiskOnly(riskLevel) == riskLevel = "high"

HighRisk(riskLevel) == riskLevel = "high" \/ riskLevel = "critical"

\* log(...) up to its first await: the event is built and inserted, the
\* sequence is cut to maxEvents, and the body of persistEvent runs
LogCall(in, random, fault) ==
  /\ logCount < MaxLogs
  /\ Cardinality(inFlight) < MaxInFlight
  /\ LET event == AuditEvent(in, now, random)
         p == persistEvent(storage, event, fault)
     IN /\ events' = Truncate(Unshift(events, event))
        /\ storage' = p.store
        /\ inFlight' = inFlight \cup
             {[n |-> logCount + 1, event |-> event, pc |-> "persistEvent",
               persistFailed |-> fault # "none",
               rejected |-> p.rejected, error |-> "storage"]}
        /\ last' = [n |-> logCount + 1, event |-> event]
  /\ logCount' = logCount + 1
  /\ sessionLogs' = sessionLogs + 1
  /\ UNCHANGED <<now, settled, loaded>>

\* the outcome of a log call whose promise settles
Outcome(c, status) ==
  [n |-> c.n, event |-> c.event, status |-> status, error |-> c.error,
   persistFailed |-> c.persistFailed,
   handlerFailed |-> c.pc = "handleHighRiskEvent" /\ c.rejected]

\* log resumes after await this.persistEvent(event): a rejection ends the
\* call; a high or critical event runs the body of handleHighRiskEvent,
\* whose console.warn may throw; any other event ends the call
AfterPersist(c, warnThrows) ==
  /\ c \in inFlight
  /\ c.pc = "persistEvent"
  /\ IF c.rejected
     THEN /\ inFlight' = inFlight \ {c}
          /\ settled' = Outcome(c, "rejected")
     ELSE IF HighRisk(c.event.riskLevel)
     THEN /\ inFlight' = (inFlight \ {c}) \cup
               {[c EXCEPT !.pc = "handleHighRiskEvent",
                          !.rejected = warnThrows,
                          !.error = "handler"]}
          /\ UNCHANGED settled
     ELSE /\ inFlight' = inFlight \ {c}
          /\ settled' = Outcome(c, "resolved")
  /\ UNCHANGED <<events, storage, now, last, loaded, sessionLogs, logCount>>

\* log resumes after await this.handleHighRiskEvent(event) and returns; a
\* rejected promise is thrown by the await and rejects the promise of log
AfterHandler(c) ==
  /\ c \in inFlight
  /\ c.pc = "handleHighRiskEvent"
  /\ inFlight' = inFlight \ {c}
  /\ settled' = Outcome(c, IF c.rejected THEN "rejected" ELSE "resolved")
  /\ UNCHANGED <<events, storage, now, last, loaded, sessionLogs, logCount>>

\* the clock advances
Tick ==
  /\ now < MaxTime
  /\ now' = now + 1
  /\ UNCHANGED <<events, storage, inFlight, settled, last, loaded,
                 sessionLogs, logCount>>

\* the page is loaded again: a new AuditLogger is constructed on the same
\* localStorage, and the calls of the old page are gone
Construct ==
  /\ events' = loadPersistedEvents(storage)
  /\ loaded' = Len(loadPersistedEvents(storage))
  /\ inFlight' = {}
  /\ settled' = None
  /\ last' = None
  /\ sessionLogs' = 0
  /\ UNCHANGED <<storage, now, logCount>>

Next ==
  \/ \E c \in Calls, fault \in Faults :
       LogCall(c.in, c.random, fault) /\ UNCHANGED detectorVars
  \/ \E c \in inFlight, warnThrows \in BOOLEAN :
       AfterPersist(c, warnThrows) /\ UNCHANGED detectorVars
  \/ \E c \in inFlight : AfterHandler(c) /\ UNCHANGED detectorVars
  \/ Tick /\ UNCHANGED detectorVars
  \/ Construct /\ UNCHANGED detectorVars

Spec == Init /\ [][Next]_vars

(***************************************************************************)
(* A localStorage that never fails                                         *)
(***************************************************************************)
ReliableNext ==
  \/ \E c \in Calls :
       LogCall(c.in, c.random, "none") /\ UNCHANGED detectorVars
  \/ \E c \in inFlight, warnThrows \in BOOLEAN :
       AfterPersist(c, warnThrows) /\ UNCHANGED detectorVars
  \/ \E c \in inFlight : AfterHandler(c) /\ UNCHANGED detectorVars
  \/ Tick /\ UNCHANGED detectorVars
  \/ Construct /\ UNCHANGED detectorVars

ReliableSpec == Init /\ [][ReliableNext]_vars

(***************************************************************************)
(* A page that awaits each of its log calls                                *)
(***************************************************************************)
\* await auditLogger.log(...), made when the call before it has settled
AwaitedLog(in, fault) ==
  /\ inFlight = {}
  /\ LogCall(in, "k3x9", fault)

\* the riskLevel is medium whatever the confidence
logPHIDetectionMedium(userId, resourceId, phiTypes, confidence, matchCount) ==
  [userId |-> userId, action |-> "phi_detected", resourceType |-> "data",
   resourceId |-> resourceId,
   details |-> [phiTypes |-> phiTypes, confidence |-> confidence,
                matchCount |-> matchCount,
                detectionMethod |-> "automated_scan"],
   riskLevel |-> "medium"]

\* logPHIDetection(userId, resourceId, phiTypes, confidence, matchCount)
logPHIDetection(userId, resourceId, phiTypes, confidence, matchCount) ==
  [userId |-> userId, action |-> "phi_detected", resourceType |-> "data",
   resourceId |-> resourceId,
   details |-> [phiTypes |-> phiTypes, confidence |-> confidence,
                matchCount |-> matchCount,
                detectionMethod |-> "automated_scan"],
   riskLevel |-> IF confidence = "high" THEN "high" ELSE "medium"]

\* logPHIRedaction(userId, resourceId, redactionCount, redactionMethod)
\* when the clock shows time
logPHIRedaction(userId, resourceId, redactionCount, redactionMethod, time) ==
  [userId |-> userId, action |-> "phi_redacted", resourceType |-> "data",
   resourceId |-> resourceId,
   details |-> [redactionCount |-> redactionCount,
                redactionMethod |-> redactionMethod,
                timestamp |-> <<"ISO", time>>],
   riskLevel |-> "medium"]

\* logFileOperation(userId, action, fileName, fileSize, fileType)
logFileOperation(userId, action, fileName, fileSize, fileType) ==
  [userId |-> userId, action |-> action, resourceType |-> "file",
   resourceId |-> fileName,
   details |-> [fileSize |-> fileSize, fileType |-> fileType,
                fileName |-> fileName],
   riskLevel |-> "low"]

\* await auditLogger.logPHIDetection(...)
LogPHIDetection(confidence, fault) ==
  AwaitedLog(logPHIDetection("u2", "doc1", <<"SSN">>, confidence, 1), fault)

\* await auditLogger.logPHIRedaction(...)
LogPHIRedaction(fault) ==
  AwaitedLog(logPHIRedaction("u1", "doc1", 1, "mask", now), fault)

\* await auditLogger.logFileOperation(...)
LogFileOperation(action, fileType, fault) ==
  AwaitedLog(logFileOperation("u1", action, "a", 10, fileType), fault)

AwaitedNext ==
  \/ \E in \in AwaitedInputs, fault \in Faults :
       AwaitedLog(in, fault) /\ UNCHANGED detectorVars
  \/ \E confidence \in ConfidenceChoices, fault \in Faults :
       LogPHIDetection(confidence, fault) /\ UNCHANGED detectorVars
  \/ \E fault \in Faults : LogPHIRedaction(fault) /\ UNCHANGED detectorVars
  \/ \E action \in {"file_uploaded", "file_downloaded"},
        fileType \in FileTypeChoices, fault \in Faults :
       LogFileOperation(action, fileType, fault) /\ UNCHANGED detectorVars
  \/ \E c \in inFlight, warnThrows \in BOOLEAN :
       AfterPersist(c, warnThrows) /\ UNCHANGED detectorVars
  \/ \E c \in inFlight : AfterHandler(c) /\ UNCHANGED detectorVars

AwaitedSpec == Init /\ [][AwaitedNext]_vars

(***************************************************************************)
(* Calls of the detector and the redactor                                  *)
(***************************************************************************)
\* detector.detect(text)
Detect(text) ==
  /\ call.op = "idle"
  /\ call' = [op |-> "detect", text |-> text, repeated |-> scanned,
              scan |-> detectWith(text, lastIndex)]
  /\ lastIndex' = call'.scan.lastIndex
  /\ scanned' = TRUE
  /\ UNCHANGED <<redactorLastIndex, loggerVars>>

\* detector.analyzeRisk(text)
AnalyzeRisk(text) ==
  /\ call.op = "idle"
  /\ call' = [op |-> "analyzeRisk", text |-> text,
              scan |-> detectWith(text, lastIndex),
              risk |-> analyzeRisk(detectWith(text, lastIndex).matches)]
  /\ lastIndex' = call'.scan.lastIndex
  /\ scanned' = TRUE
  /\ UNCHANGED <<redactorLastIndex, loggerVars>>

\* the calls redact(text, options) for the options a caller may pass; scan
\* is what this.detector.detect(text) returns and leaves in the cursors
RedactCalls(text, scan) ==
  {[op |-> "redact", text |-> text, options |-> OptionChoices[i],
    scan |-> scan,
    result |-> redact(text, OptionChoices[i], scan.matches)] :
     i \in 1..Len(OptionChoices)}

\* redactor.redact(text, options)
Redact(text) ==
  /\ call.op = "idle"
  /\ call' \in RedactCalls(text, detectWith(text, redactorLastIndex))
  /\ redactorLastIndex' = call'.scan.lastIndex
  /\ UNCHANGED <<lastIndex, scanned, loggerVars>>

RedactByTypeCalls(text, scan) ==
  {[op |-> "redactByType", text |-> text, allowedTypes |-> allowedTypes,
    options |-> OptionChoices[i], scan |-> scan,
    result |-> redactByType(text, allowedTypes, OptionChoices[i],
                            scan.matches)] :
     allowedTypes \in AllowedTypeChoices, i \in 1..Len(OptionChoices)}

\* redactor.redactByType(text, allowedTypes, options)
RedactByType(text) ==
  /\ call.op = "idle"
  /\ call' \in RedactByTypeCalls(text, detectWith(text, redactorLastIndex))
  /\ redactorLastIndex' = call'.scan.lastIndex
  /\ UNCHANGED <<lastIndex, scanned, loggerVars>>

PreviewCall(text, maxLength, scan, cells) ==
  [op |-> "createSafePreview", text |-> text, maxLength |-> maxLength,
   scan |-> scan, cells |-> cells, preview |-> Chars(cells)]

CreateSafePreviewCalls(text, scan) ==
  {PreviewCall(text, maxLength, scan,
               createSafePreview(text, maxLength, scan.matches)) :
     maxLength \in MaxLengthChoices}

\* redactor.createSafePreview(text, maxLength)
CreateSafePreview(text) ==
  /\ call.op = "idle"
  /\ call' \in CreateSafePreviewCalls(text,
                                      detectWith(text, redactorLastIndex))
  /\ redactorLastIndex' = call'.scan.lastIndex
  /\ UNCHANGED <<lastIndex, scanned, loggerVars>>

\* the caller takes the result; the next call can be made
Return ==
  /\ call.op # "idle"
  /\ call' = Idle
  /\ UNCHANGED <<lastIndex, scanned, redactorLastIndex, loggerVars>>

DetectorNext ==
  \/ \E text \in Texts : Detect(text)
  \/ \E text \in Texts : AnalyzeRisk(text)
  \/ \E text \in Texts : Redact(text)
  \/ \E text \in Texts : RedactByType(text)
  \/ \E text \in Texts : CreateSafePreview(text)
  \/ Return

DetectorSpec == Init /\ [][DetectorNext]_vars

(***************************************************************************)
(* generateReplacement on one value                                        *)
(***************************************************************************)
\* the values of matches: the SSN "123-45-6789" and what its patterns and
\* shorter ones match of it, of every length from 1 to 11
MatchValues == {SubSeq(Fragments[1], 1, n) : n \in 1..Len(Fragments[1])}

\* the option sets redact passes on: every combination of the three
\* switches, with a partialChars that is 0, smaller than, half of, or more
\* than half of the length of a value
ReplacementOptions ==
  {[redactionChar |-> c, preserveLength |-> l, showPartial |-> p,
    partialChars |-> n, useHash |-> h,
    hashPrefix |-> defaultOptions.hashPrefix] :
     c \in {<<"*">>, <<"#">>}, l \in BOOLEAN, p \in BOOLEAN,
     n \in {0, 2, 4, 6}, h \in BOOLEAN}

\* this.generateReplacement(match.value, opts), as redact calls it for one
\* match
GenerateReplacement(value, options) ==
  /\ call.op = "idle"
  /\ call' = [op |-> "generateReplacement", value |-> value,
              options |-> options,
              replacement |-> generateReplacement(value, options)]
  /\ UNCHANGED <<lastIndex, scanned, redactorLastIndex, loggerVars>>

ReplacementNext ==
  \/ \E value \in MatchValues, options \in ReplacementOptions :
       GenerateReplacement(value, options)
  \/ Return

ReplacementSpec == Init /\ [][ReplacementNext]_vars

(***************************************************************************)
(* Queries on the in-memory sequence                                       *)
(***************************************************************************)
\* the arguments of a log call for a security violation
SecurityViolation ==
  [userId |-> "u2", action |-> "security_violation",
   resourceType |-> "system", resourceId |-> "login", details |-> << >>,
   riskLevel |-> "critical"]

\* the events that the log calls of Calls, and one for a security
\* violation, build while the clock shows 0..MaxTime
LoggedEvents ==
  {AuditEvent(c.in, t, c.random) :
     c \in Calls \cup {[in |-> SecurityViolation, random |-> "k3x9"]},
     t \in 0..MaxTime}

\* the length of the sequences the queries are made on
MaxSeq ==
  IF MaxLogs < maxEvents /\ MaxLogs <= MaxInFlight THEN MaxLogs
  ELSE IF MaxInFlight < maxEvents THEN MaxInFlight
  ELSE maxEvents

\* the in-memory sequences that MaxSeq or fewer log calls leave behind: the
\* events are newest-first, the clock never going back
EventSeqs ==
  UNION {{evs \in [1..n -> LoggedEvents] :
            \A i \in 1..n : \A j \in 1..n :
              i < j => evs[i].timestamp >= evs[j].timestamp} :
         n \in 0..MaxSeq}

\* the logger after the page has made Len(events) log calls on an empty
\* localStorage whose writes failed, none of the calls resumed yet
QueryInit ==
  /\ DetectorInit
  /\ events \in EventSeqs
  /\ storage = NoItem
  /\ now = IF events = <<>> THEN 0 ELSE events[1].timestamp
  /\ inFlight =
       {[n |-> Len(events) - i + 1, event |-> events[i],
         pc |-> "persistEvent", persistFailed |-> TRUE, rejected |-> FALSE,
         error |-> "storage"] : i \in 1..Len(events)}
  /\ settled = None
  /\ last = IF events = <<>> THEN None
            ELSE [n |-> Len(events), event |-> events[1]]
  /\ loaded = 0
  /\ sessionLogs = Len(events)
  /\ logCount = Len(events)

\* one optional field of a filter: left out, or one of the values
Optional(field, values) ==
  {<< >>} \cup {[f \in {field} |-> v] : v \in values}

\* the date ranges a caller passes
DateRanges ==
  {[start |-> a, end |-> b] : a \in 0..MaxTime, b \in 0..MaxTime}

\* the filters a caller passes to getEvents
Filters ==
  {u @@ a @@ r @@ d @@ l :
     u \in Optional("userId", {"u1", ""}),
     a \in Optional("action", {"phi_detected"}),
     r \in Optional("riskLevel", {"high"}),
     d \in Optional("dateRange", DateRanges),
     l \in Optional("limit", {0, 1, 2})}

\* auditLogger.getEvents(filter)
GetEvents(filter) ==
  /\ call.op = "idle"
  /\ call' = [op |-> "getEvents", filter |-> filter,
              result |-> getEvents(events, filter)]
  /\ UNCHANGED <<lastIndex, scanned, redactorLastIndex, loggerVars>>

\* auditLogger.getComplianceMetrics(dateRange)
GetComplianceMetrics(dateRange) ==
  /\ call.op = "idle"
  /\ call' = [op |-> "getComplianceMetrics", dateRange |-> dateRange,
              result |-> getComplianceMetrics(events, dateRange, now)]
  /\ UNCHANGED <<lastIndex, scanned, redactorLastIndex, loggerVars>>

QueryNext ==
  \/ \E filter \in Filters : GetEvents(filter)
  \/ \E dateRange \in DateRanges \cup {NoRange} :
       GetComplianceMetrics(dateRange)
  \/ Return

QuerySpec == QueryInit /\ [][QueryNext]_vars

(***************************************************************************)
(* Properties of the audit logger                                          *)
(***************************************************************************)
InMemory(event) == \E i \in 1..Len(events) : events[i] = event

\* the number of log calls made on this AuditLogger after call n
LoggedSince(n) == last.n - n

\* C1: the in-memory sequence never holds more than maxEvents events, and a
\* log call puts its event at the head and keeps the events that were there
\* in their order, without the oldest one when the sequence was full.
C1_EventsCapped ==
  [][/\ Len(events') <= maxEvents
     /\ sessionLogs' = sessionLogs + 1 =>
          /\ events'[1] = last'.event
          /\ Tail(events') =
               SubSeq(events, 1,
                      IF Len(events) < maxEvents
                      THEN Len(events) ELSE maxEvents - 1)]_vars

C1_Witness ==
  /\ loaded + sessionLogs > maxEvents
  /\ Len(events) = maxEvents
  /\ events[1] = last.event

\* C2 as stated: after N >= 1 log calls that do not exceed the capacity,
\* getEvents() has N events and the first one is the event logged last.
C2_LengthIsCallCount ==
  (sessionLogs >= 1 /\ sessionLogs <= maxEvents) =>
    /\ Len(getEvents(events, NoFilter)) = sessionLogs
    /\ sessionLogs > 0 => getEvents(events, NoFilter)[1] = last.event

\* C2 as amended: after N log calls on an AuditLogger whose constructor
\* loaded K persisted events, with K + N within the capacity, getEvents()
\* has K + N events and the first one is the event logged last.
C2_LengthIsLoadedPlusCallCount ==
  loaded + sessionLogs <= maxEvents =>
    /\ Len(getEvents(events, NoFilter)) = loaded + sessionLogs
    /\ sessionLogs > 0 => getEvents(events, NoFilter)[1] = last.event

C2_Witness ==
  /\ sessionLogs = 2
  /\ loaded + sessionLogs <= maxEvents
  /\ Len(getEvents(events, NoFilter)) = 2
  /\ getEvents(events, NoFilter)[1] = last.event
  /\ getEvents(events, NoFilter)[2] # last.event

\* C3: a log call of a high or critical event whose handleHighRiskEvent
\* fails does not reject, and its event stays in memory.
C3_HandlerFailureNotSurfaced ==
  (settled.n # 0 /\ settled.handlerFailed) =>
    /\ settled.status = "resolved"
    /\ InMemory(settled.event) \/ LoggedSince(settled.n) >= maxEvents

\* C4: a storage error in persistEvent never rejects the promise of log;
\* the event of that call is in memory until the capacity evicts it; and
\* every log call, also one after a storage error, has put its event at
\* the head of the sequence.
C4_PersistFailureContained ==
  /\ (settled.n # 0 /\ settled.persistFailed) =>
       ~(settled.status = "rejected" /\ settled.error = "storage")
  /\ \A c \in inFlight :
       c.persistFailed =>
         InMemory(c.event) \/ LoggedSince(c.n) >= maxEvents
  /\ last.n # 0 => events[1] = last.event

C4_Witness ==
  /\ settled.n # 0
  /\ settled.persistFailed
  /\ settled.status = "resolved"
  /\ InMemory(settled.event)
  /\ last.n > settled.n
  /\ events[1] = last.event
  /\ \E c \in inFlight : c.persistFailed /\ InMemory(c.event)

(***************************************************************************)
(* Properties of the detector and the redactor                             *)
(***************************************************************************)
\* position o of the original text lies inside the span of one of the matches
Covered(ms, o) ==
  \E k \in 1..Len(ms) : ms[k].startIndex <= o /\ o < ms[k].endIndex

\* value is a substring of s
Occurs(value, s) ==
  \E j \in 0..(Len(s) - Len(value)) :
    SubSeq(s, j + 1, j + Len(value)) = value

Ascending(ms) ==
  \A i \in 1..Len(ms), j \in 1..Len(ms) :
    i < j => ms[i].startIndex <= ms[j].startIndex

\* two of the matches share a position of the text
Overlapping(ms) ==
  \E i \in 1..Len(ms), j \in 1..Len(ms) :
    /\ i # j
    /\ ms[i].startIndex < ms[j].endIndex
    /\ ms[j].startIndex < ms[i].endIndex

\* C5: no character of the preview is a character of the original text that
\* lies inside a span reported by detect(text), whatever the arrangement of
\* the spans.
C5_NoSpanCharacterInPreview ==
  call.op = "createSafePreview" =>
    \A i \in 1..Len(call.cells) :
      ~Covered(call.scan.matches, call.cells[i].o)

\* C6: detect finds no match in the preview, and the preview is no longer
\* than maxLength + 3.
C6_PreviewHasNoMatch ==
  call.op = "createSafePreview" =>
    /\ detect(call.preview) = <<>>
    /\ Len(call.preview) <= call.maxLength + 3

\* C7: redactByType returns exactly the matches of the allowed types, and
\* the value of every match of another type is still in redactedText.
C7_OtherTypesUntouched ==
  call.op = "redactByType" =>
    /\ call.result.matches =
         FilterByType(call.scan.matches, call.allowedTypes)
    /\ call.result.redactionCount = Len(call.result.matches)
    /\ \A k \in 1..Len(call.scan.matches) :
         call.scan.matches[k].type \notin call.allowedTypes =>
           Occurs(call.scan.matches[k].value, call.result.redactedText)

\* C8: redact returns the matches of detect(text), in the ascending order
\* of detect, and counts them, for every option set.
C8_RedactReturnsDetectedMatches ==
  call.op = "redact" =>
    /\ call.result.redactionCount = Len(call.scan.matches)
    /\ call.result.matches = call.scan.matches
    /\ Ascending(call.result.matches)

C8_Witness ==
  /\ call.op = "redact"
  /\ Len(call.result.matches) >= 2
  /\ call.result.matches[1].startIndex < call.result.matches[2].startIndex
  /\ MergeOptions(call.options).useHash

\* C9: with preserveLength and without useHash the redacted text is as long
\* as the text, for any number and arrangement of matches.
C9_LengthPreserved ==
  (/\ call.op = "redact"
   /\ MergeOptions(call.options).preserveLength
   /\ ~MergeOptions(call.options).useHash) =>
    /\ Len(call.result.redactedText) = Len(call.text)
    /\ call.result.redactedLength = call.result.originalLength

C9_Witness ==
  /\ call.op = "redact"
  /\ MergeOptions(call.options).preserveLength
  /\ ~MergeOptions(call.options).useHash
  /\ MergeOptions(call.options).showPartial
  /\ Len(call.scan.matches) >= 2
  /\ Overlapping(call.scan.matches)
  /\ call.result.redactedText # call.text

\* C10: between calls every pattern's lastIndex is 0, and a detect call
\* that follows other detect calls on the same detector returns what a
\* first call on a new detector returns.
C10_DetectIsPure ==
  /\ lastIndex = FreshCursors
  /\ redactorLastIndex = FreshCursors
  /\ call.op = "detect" => call.scan.matches = detect(call.text)

C10_Witness ==
  /\ call.op = "detect"
  /\ call.repeated
  /\ Len(call.scan.matches) >= 2

(***************************************************************************)
(* detect: shape and order of the matches                                  *)
(***************************************************************************)
\* C11: every match detect returns has value = text.substring(startIndex,
\* endIndex) and endIndex = startIndex + value.length; the matches are in
\* non-decreasing startIndex order, and matches with the same startIndex
\* are in the order of their patterns in the patterns array.
C11_MatchesWellFormedAndOrdered ==
  call.op = "detect" =>
    LET ms == call.scan.matches
    IN /\ \A i \in 1..Len(ms) :
            /\ ms[i].value =
                 Substring(call.text, ms[i].startIndex, ms[i].endIndex)
            /\ ms[i].endIndex = ms[i].startIndex + Len(ms[i].value)
       /\ \A i, j \in 1..Len(ms) :
            i < j =>
              /\ ms[i].startIndex <= ms[j].startIndex
              /\ ms[i].startIndex = ms[j].startIndex =>
                   PatternIndex(ms[i].type) < PatternIndex(ms[j].type)

\* a detect call whose matches are not in pattern order, two of them
\* starting at the same index
C11_Witness ==
  /\ call.op = "detect"
  /\ \E i, j \in 1..Len(call.scan.matches) :
       /\ i < j
       /\ call.scan.matches[i].startIndex = call.scan.matches[j].startIndex
  /\ \E i, j \in 1..Len(call.scan.matches) :
       /\ i < j
       /\ PatternIndex(call.scan.matches[i].type) >
            PatternIndex(call.scan.matches[j].type)

C13_EmailAndPhoneIsMedium ==
  (/\ call.op = "analyzeRisk"
   /\ Len(call.scan.matches) = 2
   /\ {call.scan.matches[i].type : i \in 1..2} = {"Email", "Phone Number"}) =>
    /\ call.risk.riskLevel = "medium"
    /\ call.risk.phiCount = 2

(***************************************************************************)
(* detect on a label, a colon, a space and a value                         *)
(***************************************************************************)
\* C14: detect gives exactly one match, of the labelled type and of high
\* confidence, for "DOB: 01/15/1990" (Date of Birth) and for
\* "MRN: MED123456789" (Medical Record Number).
C14_LabelledValueDetected ==
  call.op = "detect" =>
    /\ call.text = Examples[2] =>
         /\ Len(call.scan.matches) = 1
         /\ call.scan.matches[1].type = "Date of Birth"
         /\ call.scan.matches[1].confidence = "high"
    /\ call.text = Examples[3] =>
         /\ Len(call.scan.matches) = 1
         /\ call.scan.matches[1].type = "Medical Record Number"
         /\ call.scan.matches[1].confidence = "high"

(***************************************************************************)
(* Compliance flags                                                        *)
(***************************************************************************)
\* the flags the rule table gives for (action, details, riskLevel)
FlagsByRule(action, details, riskLevel) ==
  CASE action = "phi_detected" /\ riskLevel = "high" ->
         <<"hipaa_phi_detection", "hipaa_high_risk_phi">>
    [] action = "phi_detected" /\ riskLevel # "high" ->
         <<"hipaa_phi_detection">>
    [] action = "phi_redacted" -> <<"hipaa_phi_redaction">>
    [] /\ action = "data_exported"
       /\ "containsPHI" \in DOMAIN details
       /\ details.containsPHI = TRUE -> <<"hipaa_phi_export">>
    [] action = "permission_denied" -> <<"access_control_violation">>
    [] /\ action = "file_uploaded"
       /\ "fileType" \in DOMAIN details
       /\ details.fileType \in {"xlsx", "csv", "txt"} ->
         <<"structured_data_upload">>
    [] OTHER -> << >>

\* C15: the complianceFlags of the event a log call created, and of every
\* event in memory, are the flags the rule table gives for its action, its
\* details and its riskLevel.
C15_FlagsArePureFunction ==
  /\ last.n # 0 =>
       last.event.complianceFlags =
         FlagsByRule(last.event.action, last.event.details,
                     last.event.riskLevel)
  /\ \A i \in 1..Len(events) :
       events[i].complianceFlags =
         FlagsByRule(events[i].action, events[i].details,
                     events[i].riskLevel)

\* log(userId, 'phi_detected', 'data', 'doc1', {phiTypes: ['SSN'],
\* confidence: 'high', matchCount: 1}, 'high') has been called after a
\* critical phi_detected event, which is still in memory
C15_Witness ==
  /\ last.n # 0
  /\ last.event.action = "phi_detected"
  /\ last.event.riskLevel = "high"
  /\ "phiTypes" \in DOMAIN last.event.details
  /\ last.event.complianceFlags =
       <<"hipaa_phi_detection", "hipaa_high_risk_phi">>
  /\ Len(events) = 2
  /\ events[2].action = "phi_detected"
  /\ events[2].riskLevel = "critical"
  /\ events[2].complianceFlags = <<"hipaa_phi_detection">>

(***************************************************************************)
(* Events are write-once                                                   *)
(***************************************************************************)
\* C16: in one AuditLogger, a step that is not the insertion of a log call
\* leaves the in-memory sequence as it is; the insertion of a log call puts
\* the new event at the head of the events that were there, unchanged and
\* in their order, and drops events only from the tail and only when the
\* sequence is at its capacity.  (A step that lowers the number of log
\* calls of the instance is the construction of another AuditLogger.)
C16_EventsWriteOnce ==
  [][sessionLogs' >= sessionLogs =>
       IF sessionLogs' = sessionLogs + 1
       THEN \E k \in 0..Len(events) :
              /\ events' = <<last'.event>> \o SubSeq(events, 1, k)
              /\ k < Len(events) => Len(events') = maxEvents
       ELSE events' = events]_vars

\* the oldest event has been evicted, the calls have settled, and the
\* event logged before the last one is still behind it
C16_Witness ==
  /\ sessionLogs >= 2
  /\ loaded + sessionLogs > maxEvents
  /\ inFlight = {}
  /\ settled.n = last.n
  /\ Len(events) = maxEvents
  /\ events[1] = last.event
  /\ events[2] # events[1]

(***************************************************************************)
(* High-risk handling                                                      *)
(***************************************************************************)
\* the event is one that logPHIRedaction or logFileOperation builds
ViaRedactionOrFile(event) ==
  \/ "redactionMethod" \in DOMAIN event.details
  \/ "fileName" \in DOMAIN event.details

\* C17: a log call is in, or has gone through, handleHighRiskEvent exactly
\* when its riskLevel is high or critical: a call that is in the handler
\* has such a level, a call that has settled went through the handler if
\* and only if it has such a level, and no call made through
\* logPHIRedaction or logFileOperation reaches the handler.
C17_HandlerOnlyForHighRisk ==
  /\ \A c \in inFlight :
       /\ c.pc = "handleHighRiskEvent" =>
            c.event.riskLevel \in {"high", "critical"}
       /\ ViaRedactionOrFile(c.event) => c.pc # "handleHighRiskEvent"
  /\ settled.n # 0 =>
       /\ (settled.error = "handler") <=>
            (settled.event.riskLevel \in {"high", "critical"})
       /\ ViaRedactionOrFile(settled.event) => settled.error # "handler"

\* a critical event has gone through the handler after a logPHIRedaction
\* event was logged
C17_Witness ==
  /\ settled.n # 0
  /\ settled.event.riskLevel = "critical"
  /\ settled.error = "handler"
  /\ Len(events) = 2
  /\ "redactionMethod" \in DOMAIN events[2].details

(***************************************************************************)
(* The persisted list                                                      *)
(***************************************************************************)
\* the persisted list is newest-first: no event is older than one behind it
PersistedNewestFirst(logs) ==
  \A i \in 1..Len(logs) : \A j \in 1..Len(logs) :
    i < j => logs[i].timestamp[2] >= logs[j].timestamp[2]

\* C18: the persisted list never holds more than its cap, which is smaller
\* than maxEvents, and is newest-first; a step either leaves the list as it
\* is or is a log call that puts its event at the head and drops, only
\* when the list was at its cap, the oldest persisted event.  What is
\* dropped depends on the length of the persisted list alone: a log call
\* that truncates the in-memory sequence while the persisted list is
\* below its cap drops nothing from the persisted list.
C18_PersistedListCapped ==
  /\ maxPersisted < maxEvents
  /\ Len(storage.logs) <= maxPersisted
  /\ PersistedNewestFirst(storage.logs)
  /\ [][/\ Len(storage'.logs) <= maxPersisted
        /\ PersistedNewestFirst(storage'.logs)
        /\ \/ storage' = storage
           \/ /\ sessionLogs' = sessionLogs + 1
              /\ storage'.logs =
                   <<ToJSON(last'.event)>> \o
                     SubSeq(storage.logs, 1,
                            IF Len(storage.logs) < maxPersisted
                            THEN Len(storage.logs) ELSE maxPersisted - 1)
        /\ (/\ sessionLogs' = sessionLogs + 1
            /\ Len(events) = maxEvents
            /\ Len(storage.logs) < maxPersisted) =>
             \A i \in 1..Len(storage.logs) :
               \E j \in 1..Len(storage'.logs) :
                 storage'.logs[j] = storage.logs[i]]_vars

\* the log calls of this page have pushed an event out of the full
\* in-memory sequence, and that event is still in the persisted list
C18_Witness ==
  /\ sessionLogs >= 1
  /\ loaded + sessionLogs > maxEvents
  /\ Len(events) = maxEvents
  /\ Len(storage.logs) = maxPersisted
  /\ \E i \in 1..Len(storage.logs) :
       \A k \in 1..Len(events) : events[k] # FromJSON(storage.logs[i])

(***************************************************************************)
(* getEvents                                                               *)
(***************************************************************************)
\* the event passes every criterion the filter has a field for
PassesSupplied(e, filter) ==
  /\ "userId" \in DOMAIN filter => e.userId = filter.userId
  /\ "action" \in DOMAIN filter => e.action = filter.action
  /\ "riskLevel" \in DOMAIN filter => e.riskLevel = filter.riskLevel
  /\ "dateRange" \in DOMAIN filter =>
       /\ e.timestamp >= filter.dateRange.start
       /\ e.timestamp <= filter.dateRange.end

\* C19: getEvents(filter) returns, in the order of the in-memory sequence,
\* the events that pass every criterion the filter supplies (userId, action,
\* riskLevel, inclusive dateRange), and for every limit N the filter supplies
\* exactly the first min(N, k) of the k events that pass.
C19_GetEventsNarrowsThenLimits ==
  call.op = "getEvents" =>
    LET passing == SelectSeq(events,
                             LAMBDA e : PassesSupplied(e, call.filter))
        k == Len(passing)
    IN IF "limit" \in DOMAIN call.filter
       THEN call.result =
              SubSeq(passing, 1,
                     IF call.filter.limit < k THEN call.filter.limit ELSE k)
       ELSE call.result = passing

(***************************************************************************)
(* getComplianceMetrics                                                    *)
(***************************************************************************)
\* the events of the in-memory sequence the metrics are computed over
Considered(dateRange) ==
  IF dateRange = NoRange THEN events
  ELSE SelectSeq(events,
                 LAMBDA e : /\ e.timestamp >= dateRange.start
                            /\ e.timestamp <= dateRange.end)

\* the number of positions of evs whose event has the action
WithAction(evs, action) ==
  Cardinality({i \in 1..Len(evs) : evs[i].action = action})

\* C20: getComplianceMetrics counts, over the whole in-memory sequence or
\* over its events inside the inclusive dateRange, totalEvents as all the
\* considered events, phiDetections as those with action phi_detected,
\* redactions as those with action phi_redacted and highRiskEvents as those
\* with riskLevel high or critical; without a dateRange, timeRange.start is
\* the timestamp of the oldest considered event and timeRange.end that of
\* the newest.
C20_MetricsCountConsideredEvents ==
  call.op = "getComplianceMetrics" =>
    LET considered == Considered(call.dateRange)
        m == call.result
    IN /\ m.totalEvents = Len(considered)
       /\ m.phiDetections =
            WithAction(considered, "phi_detected")
       /\ m.redactions =
            WithAction(considered, "phi_redacted")
       /\ m.highRiskEvents =
            Cardinality({i \in 1..Len(considered) :
                           considered[i].riskLevel \in {"high", "critical"}})
       /\ (call.dateRange = NoRange /\ considered # << >>) =>
            /\ \E i \in 1..Len(considered) :
                 considered[i].timestamp = m.timeRange.start
            /\ \E i \in 1..Len(considered) :
                 considered[i].timestamp = m.timeRange.end
            /\ \A i \in 1..Len(considered) :
                 /\ m.timeRange.start <= considered[i].timestamp
                 /\ considered[i].timestamp <= m.timeRange.end

\* metrics without a dateRange over events of two different times, and
\* metrics over a dateRange that leaves out an event, with a detection, a
\* redaction and a high-risk event counted
C20_Witness ==
  /\ call.op = "getComplianceMetrics"
  /\ call.result.phiDetections >= 1
  /\ call.result.highRiskEvents >= 1
  /\ \/ /\ call.dateRange = NoRange
        /\ call.result.timeRange.start < call.result.timeRange.end
        /\ call.result.redactions >= 1
     \/ /\ call.dateRange # NoRange
        /\ call.result.totalEvents < Len(events)
        /\ call.result.phiDetections <
             WithAction(events, "phi_detected")

\* C21: getComplianceMetrics over no considered event (nothing logged, or
\* a dateRange that holds no event) returns zero for every count and a
\* timeRange whose start and end are both set: the dateRange when one is
\* passed, the current time otherwise.
C21_EmptyMetricsAreZero ==
  (call.op = "getComplianceMetrics" /\ Considered(call.dateRange) = << >>) =>
    LET m == call.result
    IN /\ m.totalEvents = 0
       /\ m.phiDetections = 0
       /\ m.redactions = 0
       /\ m.highRiskEvents = 0
       /\ m.complianceViolations = 0
       /\ DOMAIN m.timeRange = {"start", "end"}
       /\ m.timeRange = IF call.dateRange = NoRange
                        THEN [start |-> now, end |-> now]
                        ELSE call.dateRange

\* metrics without a dateRange on a logger that holds no event
C21_Witness ==
  /\ call.op = "getComplianceMetrics"
  /\ call.dateRange = NoRange
  /\ events = << >>
  /\ call.result.totalEvents = 0

(***************************************************************************)
(* logPHIDetection                                                         *)
(***************************************************************************)
\* the event is one that logPHIDetection builds
ViaDetection(event) == "detectionMethod" \in DOMAIN event.details

\* the flag is one of the event's complianceFlags
HasFlag(event, flag) ==
  \E i \in 1..Len(event.complianceFlags) : event.complianceFlags[i] = flag

\* C22: a call of logPHIDetection adds exactly one event, at the front of
\* the in-memory sequence; its action is phi_detected, its resourceType is
\* data, its riskLevel is high when the confidence is 'high' and medium
\* otherwise, and its complianceFlags hold hipaa_phi_detection always and
\* hipaa_high_risk_phi exactly when the confidence is 'high'.
C22_DetectionEventShape ==
  [][(sessionLogs' = sessionLogs + 1 /\ ViaDetection(last'.event)) =>
       LET e == last'.event
           kept == IF Len(events) < maxEvents THEN Len(events)
                   ELSE maxEvents - 1
       IN /\ events' = <<e>> \o SubSeq(events, 1, kept)
          /\ e.action = "phi_detected"
          /\ e.resourceType = "data"
          /\ e.riskLevel =
               IF e.details.confidence = "high" THEN "high" ELSE "medium"
          /\ HasFlag(e, "hipaa_phi_detection")
          /\ HasFlag(e, "hipaa_high_risk_phi") <=>
               e.details.confidence = "high"
          /\ {"phiTypes", "confidence", "matchCount"} \subseteq
               DOMAIN e.details]_vars

\* a detection of low confidence logged after one of high confidence
C22_Witness ==
  /\ last.n = 2
  /\ Len(events) = 2
  /\ events[1] = last.event
  /\ ViaDetection(events[1])
  /\ events[1].details.confidence = "low"
  /\ events[1].riskLevel = "medium"
  /\ ~HasFlag(events[1], "hipaa_high_risk_phi")
  /\ ViaDetection(events[2])
  /\ events[2].details.confidence = "high"
  /\ events[2].riskLevel = "high"
  /\ HasFlag(events[2], "hipaa_high_risk_phi")

(***************************************************************************)
(* Event ids                                                               *)
(***************************************************************************)
\* no two elements of the sequence have the same id
DistinctIds(evs) ==
  \A i \in 1..Len(evs) : \A j \in 1..Len(evs) :
    i # j => evs[i].id # evs[j].id

\* C23: at all times no two events of the in-memory sequence, and no two
\* events of the persisted list, have the same id, whatever the timing of
\* the log calls.
C23_IdsUnique ==
  /\ DistinctIds(events)
  /\ DistinctIds(storage.logs)

(***************************************************************************)
(* generateReplacement: the order of the branches                          *)
(***************************************************************************)
\* every character of s is the character c
AllAre(s, c) == \A i \in 1..Len(s) : s[i] = c

\* C24: generateReplacement takes one branch, in the order useHash, then
\* showPartial when the value is longer than 2 * partialChars, then
\* preserveLength, then the literal [cREDACTEDc]: the showPartial branch
\* keeps the first and the last partialChars characters and fills the
\* middle with redactionChar, so the replacement is as long as the value,
\* and a value of at most 2 * partialChars characters is never partly shown.
C24_BranchPriority ==
  call.op = "generateReplacement" =>
    LET v == call.value
        o == call.options
        r == call.replacement
        n == o.partialChars
        c == o.redactionChar[1]
        prefix == Len(o.hashPrefix)
    IN IF o.useHash
       THEN /\ Len(r) = prefix + 8
            /\ SubSeq(r, 1, prefix) = o.hashPrefix
            /\ \A i \in (prefix + 1)..Len(r) : \E k \in 1..16 : r[i] = HexSeq[k]
       ELSE IF o.showPartial /\ Len(v) > 2 * n
       THEN /\ Len(r) = Len(v)
            /\ \A i \in 1..Len(v) :
                 r[i] = IF i <= n \/ i > Len(v) - n THEN v[i] ELSE c
       ELSE IF o.preserveLength
       THEN Len(r) = Len(v) /\ AllAre(r, c)
       ELSE r = <<"[", c, "R", "E", "D", "A", "C", "T", "E", "D", c, "]">>

\* showPartial on a value of exactly 2 * partialChars characters: the
\* value is masked whole
C24_Witness ==
  /\ call.op = "generateReplacement"
  /\ ~call.options.useHash
  /\ call.options.showPartial
  /\ call.options.preserveLength
  /\ call.options.partialChars = 2
  /\ Len(call.value) = 4
  /\ call.replacement = <<"*", "*", "*", "*">>

(***************************************************************************)
(* redact, redactByType: replacing in descending order                     *)
(***************************************************************************)
RECURSIVE HoldsValueWhenProcessed(_, _, _)
\* in the forEach over the reversed matches, the working text holds the
\* value of each match at [startIndex, endIndex) when its turn comes
HoldsValueWhenProcessed(cells, reversed, opts) ==
  IF reversed = <<>> THEN TRUE
  ELSE LET match == Head(reversed)
       IN /\ Chars(Substring(cells, match.startIndex, match.endIndex)) =
               match.value
          /\ HoldsValueWhenProcessed(ReplaceAll(cells, <<match>>, opts),
                                     Tail(reversed), opts)

\* the positions of the text outside every span of ms, in ascending order
Outside(text, ms) ==
  SelectSeq([i \in 1..Len(text) |-> i - 1], LAMBDA o : ~Covered(ms, o))

\* the positions of the text whose characters are still in the cells, in
\* the order of the cells
Surviving(cells) ==
  LET kept == SelectSeq(cells, LAMBDA cell : cell.o # NoOrigin)
  IN [i \in 1..Len(kept) |-> kept[i].o]

\* C25: for every option set and every list of rewritten matches of redact
\* and redactByType, each match finds its original value at
\* [startIndex, endIndex) of the working text when it is processed, and the
\* characters of the text outside the spans are all in the result,
\* unchanged and in their order, with no character of a span among them.
C25_DescendingOrderKeepsIndices ==
  call.op \in {"redact", "redactByType"} =>
    LET processed == Reverse(call.result.matches)
    IN /\ HoldsValueWhenProcessed(Cells(call.text), processed,
                                  MergeOptions(call.options))
       /\ Surviving(call.result.cells) =
            Outside(call.text, call.result.matches)

(***************************************************************************)
(* Log calls in flight together                                            *)
(***************************************************************************)
\* the place in the in-memory sequence of the event of call n of this
\* AuditLogger, the newest event being at place 1
PlaceOf(n) == LoggedSince(n) + 1

\* the smaller of two numbers
Min(a, b) == IF a < b THEN a ELSE b

\* C26: whatever the interleaving of the log calls in flight, the sequence
\* never exceeds maxEvents, it holds one event for every log call made (and
\* every event loaded) up to maxEvents, the event of every call that is in
\* flight or has just settled is at the place its call order gives it, and
\* the events of the calls are newest-first.
C26_ConcurrentLogsKeepSequence ==
  /\ Len(events) = Min(maxEvents, loaded + sessionLogs)
  /\ \A c \in inFlight :
       PlaceOf(c.n) <= maxEvents =>
         /\ PlaceOf(c.n) <= Len(events)
         /\ events[PlaceOf(c.n)] = c.event
  /\ (settled.n # 0 /\ PlaceOf(settled.n) <= maxEvents) =>
       /\ PlaceOf(settled.n) <= Len(events)
       /\ events[PlaceOf(settled.n)] = settled.event
  /\ \A i \in 1..Len(events) : \A j \in 1..Len(events) :
       (i < j /\ j <= sessionLogs) =>
         events[i].timestamp >= events[j].timestamp

\* two log calls in flight at different points, the clock having advanced
\* between them, on a sequence that the second call has cut to maxEvents
C26_Witness ==
  /\ Cardinality(inFlight) = 2
  /\ \E c \in inFlight : \E d \in inFlight :
       /\ c.n < d.n
       /\ c.pc = "persistEvent"
       /\ d.pc = "handleHighRiskEvent"
       /\ events[1] = d.event
       /\ events[2] = c.event
       /\ c.event.timestamp < d.event.timestamp
  /\ loaded + sessionLogs > maxEvents
  /\ Len(events) = maxEvents

(***************************************************************************)
(* The order of the steps of a log call                                    *)
(***************************************************************************)
\* the persisted list holds the event
Persisted(event) ==
  \E i \in 1..Len(storage.logs) : storage.logs[i] = ToJSON(event)

\* C27: when log yields for the first time, before its promise settles,
\* its event is at the head of the in-memory sequence, so that getEvents()
\* returns it first, and the persistence attempt has been made; the
\* high-risk handling of a call comes after that point; and the promise of
\* a call whose persistence failed still resolves unless the high-risk
\* handler fails.
C27_InsertBeforeYield ==
  [][/\ sessionLogs' = sessionLogs + 1 =>
          /\ Len(events') >= 1
          /\ events'[1] = last'.event
          /\ Len(getEvents(events', NoFilter)) >= 1
          /\ getEvents(events', NoFilter)[1] = last'.event
          /\ settled' = settled
          /\ \E c \in inFlight' :
               /\ c.n = last'.n
               /\ c.event = last'.event
               /\ c.pc = "persistEvent"
               /\ IF c.persistFailed THEN storage' = storage
                  ELSE /\ Len(storage'.logs) >= 1
                       /\ storage'.logs[1] = ToJSON(c.event)
     /\ \A c \in inFlight' :
          c.pc = "handleHighRiskEvent" =>
            \E b \in inFlight :
              /\ b.n = c.n
              /\ b.event = c.event
              /\ b.pc \in {"persistEvent", "handleHighRiskEvent"}
     /\ (settled'.n # 0 /\ settled'.persistFailed
         /\ ~settled'.handlerFailed) => settled'.status = "resolved"]_vars

\* a log call has resolved although its event was not persisted; the
\* event is in memory
C27_Witness ==
  /\ settled.n # 0
  /\ settled.status = "resolved"
  /\ settled.persistFailed
  /\ ~Persisted(settled.event)
  /\ Len(events) >= 1
  /\ events[1] = settled.event
  /\ HighRisk(settled.event.riskLevel)

(***************************************************************************)
(* The persisted list and the in-memory sequence                           *)
(***************************************************************************)
\* C28: when no storage operation fails and one AuditLogger at a time
\* writes to the store, the persisted list is, in every state (after the
\* construction and after every log call, also with calls in flight), the
\* newest min(maxPersisted, length) events of the in-memory sequence in
\* their order, each one as JSON.stringify writes it.
C28_PersistedIsNewestInMemory ==
  /\ Len(storage.logs) = Min(maxPersisted, Len(events))
  /\ \A i \in 1..Len(storage.logs) : storage.logs[i] = ToJSON(events[i])

\* after loading persisted events and two log calls, both still in flight,
\* the in-memory sequence is longer than the persisted list
C28_Witness ==
  /\ loaded >= 1
  /\ sessionLogs = 2
  /\ Cardinality(inFlight) = 2
  /\ Len(events) = maxEvents
  /\ Len(storage.logs) = maxPersisted
  /\ storage.logs[1] = ToJSON(last.event)
  /\ storage.logs[2] # storage.logs[1]

(***************************************************************************)
(* redact with the default options                                         *)
(***************************************************************************)
\* C29: with preserveLength and without useHash and showPartial, as in the
\* default options, redactedText has the redaction character at every
\* position that lies in the span of one match or more, also where spans
\* overlap or nest, and the character of the text at every other position.
C29_MaskCoversExactlyTheSpans ==
  (/\ call.op = "redact"
   /\ MergeOptions(call.options).preserveLength
   /\ ~MergeOptions(call.options).useHash
   /\ ~MergeOptions(call.options).showPartial) =>
    /\ Len(call.result.redactedText) = Len(call.text)
    /\ \A i \in 1..Len(call.text) :
         call.result.redactedText[i] =
           IF Covered(call.scan.matches, i - 1)
           THEN MergeOptions(call.options).redactionChar[1]
           ELSE call.text[i]

\* redact without options on a text with a match nested in another one and
\* a character outside every match
C29_Witness ==
  /\ call.op = "redact"
  /\ call.options = << >>
  /\ Overlapping(call.scan.matches)
  /\ \E i \in 1..Len(call.text) :
       /\ ~Covered(call.scan.matches, i - 1)
       /\ call.result.redactedText[i] = call.text[i]
       /\ call.text[i] # "*"
  /\ \E i \in 1..Len(call.text) : call.result.redactedText[i] = "*"

(***************************************************************************)
(* complianceViolations                                                    *)
(***************************************************************************)
\* C30: for events that log creates, complianceViolations is the number of
\* considered events whose action is permission_denied; an event of action
\* security_violation, or of any other action, does not count.
C30_ViolationsArePermissionDenials ==
  call.op = "getComplianceMetrics" =>
    call.result.complianceViolations =
      WithAction(Considered(call.dateRange), "permission_denied")

\* metrics over a denied permission and a security violation: one
\* compliance violation is counted
C30_Witness ==
  /\ call.op = "getComplianceMetrics"
  /\ call.result.totalEvents = 2
  /\ WithAction(Considered(call.dateRange), "security_violation") = 1
  /\ WithAction(Considered(call.dateRange), "permission_denied") = 1
  /\ call.result.complianceViolations = 1
====
